---------------------------- MODULE Spec2Model ----------------------------
(***************************************************************************)
(* Chart computation and reconciliation engine of pythia-api (server.js,   *)
(* src/unnamed/part_007): calculateChart, its classifiers and aspect       *)
(* detector, the startup job recalculateAllChartsOnStartup and the routes  *)
(* that compute or rewrite a chart.                                        *)
(*                                                                         *)
(* Conventions.  A JavaScript object is a record, a missing property is a  *)
(* missing field (Has), null is the empty tuple <<>> and a present         *)
(* optional value is a one-element tuple.  Text that the code formats or   *)
(* parses (times, dates) is a tuple of one-character strings; opaque text  *)
(* (place names, labels) is a string.  Longitudes are whole degrees.       *)
(* Ecliptic latitude and speed are copied through by the code unread and   *)
(* are left out of a position.                                             *)
(***************************************************************************)
EXTENDS Integers, Sequences, FiniteSets, TLC

VARIABLES
    geocodingApiKey, \* process.env.GEOCODING_API_KEY is set
    ephe,            \* the ephemeris: what swe_houses / swe_calc_ut answer
    store,           \* table astro_event_data: event_id -> row
    jobPc,           \* position of recalculateAllChartsOnStartup
    jobConn,         \* the job's pool connection: "none" | "held" | "released"
    jobReleases,     \* how many times the job called conn.release()
    events,          \* the job's snapshot (result of the SELECT)
    idx,             \* 1-based index of the record the job's loop is at
    log,             \* the job's console output, one entry per record
    call,            \* caller -> state of its calculateChart invocation
    req,             \* the API request being served, with its connection
    swephOpen,       \* swe_set_ephe_path was called and swe_close not yet
    arg,             \* argument of a classifier applied on its own
    ret,             \* its result
    stats,           \* table user_query_stats: the row of the one user
    chats,           \* request number -> state of a POST /api/chat
    today,           \* the calendar day that new Date() falls on
    served,          \* day -> chat requests answered with an AI response
    messages,        \* table chat_messages: message_id -> row
    conversations,   \* table conversations: id -> row
    script,          \* position and locals of the normalization script
    produced         \* the table and log a first run of the job left

chatVars == <<stats, chats, today, served>>
scriptVars == <<messages, conversations, script>>
vars == <<geocodingApiKey, ephe, store, jobPc, jobConn, jobReleases, events,
          idx, log, call, req, swephOpen, arg, ret, chatVars, scriptVars,
          produced>>

-----------------------------------------------------------------------------
(* Bounds of the model.                                                    *)

NumBodies == 3      \* how many of the 12 tracked bodies a chart computes
MaxRecords == 2     \* rows of astro_event_data at startup
MaxChats == 2       \* POST /api/chat requests of the user in flight at once
MaxDay == 1         \* calendar days that pass while the server runs
MaxTurns == 2       \* whole turns k of L -> L + 360k tried on getZodiacSign
GridN == 14         \* points of the circle that house cusps are drawn from
LonStep == 30       \* spacing of the longitudes tried on getHousePlacement

(* Constants of the program.                                               *)

FullCircle == 360
HalfCircle == 180
SignWidth == 30
NumHouses == 12
QueryLimit == 5

-----------------------------------------------------------------------------
(* JavaScript values.                                                      *)

Null == <<>>
Some(v) == <<v>>
Has(r, f) == f \in DOMAIN r
Abs(x) == IF x < 0 THEN -x ELSE x

\* a % n of JavaScript: the sign of the result is the sign of a
JsRem(a, n) == IF a >= 0 THEN a % n ELSE -((-a) % n)

Digits == <<"0", "1", "2", "3", "4", "5", "6", "7", "8", "9">>
IsDigit(c) == \E i \in 1..10 : Digits[i] = c
DigitVal(c) == (CHOOSE i \in 1..10 : Digits[i] = c) - 1

\* String(n) of a non-negative integer
RECURSIVE Dec(_)
Dec(n) == IF n < 10 THEN <<Digits[n + 1]>>
          ELSE Dec(n \div 10) \o <<Digits[(n % 10) + 1]>>

\* s.padStart(w, ch)
RECURSIVE PadStart(_, _, _)
PadStart(s, w, ch) == IF Len(s) >= w THEN s ELSE PadStart(<<ch>> \o s, w, ch)

AllDigits(s) == \A i \in 1..Len(s) : IsDigit(s[i])

RECURSIVE ToNum(_)
ToNum(s) == IF Len(s) = 0 THEN 0
            ELSE 10 * ToNum(SubSeq(s, 1, Len(s) - 1)) + DigitVal(s[Len(s)])

-----------------------------------------------------------------------------
(* luxon DateTime, as far as the server uses it.                           *)

IsLeap(y) == (y % 4 = 0) /\ ((y % 100 # 0) \/ (y % 400 = 0))
DaysInMonth(y, m) ==
    IF m = 2 THEN (IF IsLeap(y) THEN 29 ELSE 28)
    ELSE IF m \in {4, 6, 9, 11} THEN 30 ELSE 31

Invalid == [isValid |-> FALSE]
ValidFields(y, mo, d, h, mi, s) ==
       /\ mo \in 1..12
       /\ d \in 1..DaysInMonth(y, mo)
       /\ h \in 0..23
       /\ mi \in 0..59
       /\ s \in 0..59
MakeDateTime(y, mo, d, h, mi, s) ==
    IF ValidFields(y, mo, d, h, mi, s)
    THEN [isValid |-> TRUE, year |-> y, month |-> mo, day |-> d,
          hour |-> h, minute |-> mi, second |-> s]
    ELSE Invalid

\* "HH:mm" or "HH:mm:ss" at position p of s
IsClockAt(s, p) ==
    /\ Len(s) \in {p + 4, p + 7}
    /\ AllDigits(SubSeq(s, p, p + 1)) /\ s[p + 2] = ":"
    /\ AllDigits(SubSeq(s, p + 3, p + 4))
    /\ Len(s) = p + 7 => (s[p + 5] = ":" /\ AllDigits(SubSeq(s, p + 6, p + 7)))

\* "yyyy-MM-dd" followed by sep and a clock
IsDateClock(s, sep) ==
    /\ Len(s) >= 16
    /\ AllDigits(SubSeq(s, 1, 4)) /\ s[5] = "-"
    /\ AllDigits(SubSeq(s, 6, 7)) /\ s[8] = "-"
    /\ AllDigits(SubSeq(s, 9, 10)) /\ s[11] = sep
    /\ IsClockAt(s, 12)

FromDateClock(s) ==
    MakeDateTime(ToNum(SubSeq(s, 1, 4)), ToNum(SubSeq(s, 6, 7)),
                 ToNum(SubSeq(s, 9, 10)), ToNum(SubSeq(s, 12, 13)),
                 ToNum(SubSeq(s, 15, 16)),
                 IF Len(s) = 19 THEN ToNum(SubSeq(s, 18, 19)) ELSE 0)

\* DateTime.fromISO, for the extended calendar form with a 4-digit year
FromISO(s) == IF IsDateClock(s, "T") THEN FromDateClock(s) ELSE Invalid

\* DateTime.fromSQL: "yyyy-MM-dd HH:mm[:ss]"
FromSQL(s) == IF IsDateClock(s, " ") THEN FromDateClock(s) ELSE Invalid

Pad2(n) == PadStart(Dec(n), 2, "0")
Pad4(n) == PadStart(Dec(n), 4, "0")

\* dt.toFormat("HH:mm:ss")
FormatClock(dt) == Pad2(dt.hour) \o <<":">> \o Pad2(dt.minute) \o <<":">>
                   \o Pad2(dt.second)

UtcSuffix == <<" ", "U", "T", "C">>

\* dt.toFormat("yyyy-MM-dd HH:mm:ss 'UTC'")
\* dt.toFormat("yyyy-MM-dd HH:mm:ss 'UTC'"); an invalid DateTime formats as
\* the text "Invalid DateTime"
FormatUtcStamp(dt) ==
    IF ~dt.isValid THEN <<"Invalid DateTime">>
    ELSE Pad4(dt.year) \o <<"-">> \o Pad2(dt.month) \o <<"-">>
         \o Pad2(dt.day) \o <<" ">> \o FormatClock(dt) \o UtcSuffix

PrevDay(dt) ==
    IF dt.day > 1 THEN [dt EXCEPT !.day = dt.day - 1]
    ELSE IF dt.month > 1
         THEN [dt EXCEPT !.month = dt.month - 1,
                         !.day = DaysInMonth(dt.year, dt.month - 1)]
         ELSE [dt EXCEPT !.year = dt.year - 1, !.month = 12, !.day = 31]
NextDay(dt) ==
    IF dt.day < DaysInMonth(dt.year, dt.month)
    THEN [dt EXCEPT !.day = dt.day + 1]
    ELSE IF dt.month < 12
         THEN [dt EXCEPT !.month = dt.month + 1, !.day = 1]
         ELSE [dt EXCEPT !.year = dt.year + 1, !.month = 1, !.day = 1]

\* .toUTC() of a wall-clock time in a zone offHours east of Greenwich
ToUTC(dt, offHours) ==
    IF ~dt.isValid THEN dt
    ELSE LET h == dt.hour - offHours
         IN  IF h < 0 THEN [PrevDay(dt) EXCEPT !.hour = h + 24]
             ELSE IF h > 23 THEN [NextDay(dt) EXCEPT !.hour = h - 24]
             ELSE [dt EXCEPT !.hour = h]

\* s.replace(" UTC", ""): the first occurrence is removed
RECURSIVE StripUtcFrom(_, _)
StripUtcFrom(s, p) ==
    IF p + 3 > Len(s) THEN s
    ELSE IF SubSeq(s, p, p + 3) = UtcSuffix
         THEN SubSeq(s, 1, p - 1) \o SubSeq(s, p + 4, Len(s))
         ELSE StripUtcFrom(s, p + 1)
StripUtc(s) == StripUtcFrom(s, 1)

-----------------------------------------------------------------------------
(* Sign / house classifier.                                                *)

Undefined == "undefined"    \* signs[k] for an index k outside the array

signs == <<"Aries", "Taurus", "Gemini", "Cancer", "Leo", "Virgo", "Libra",
           "Scorpio", "Sagittarius", "Capricorn", "Aquarius", "Pisces">>

SignIndexOffByOne(longitude) == (longitude \div SignWidth) + 1
\* Math.floor(longitude / 30)
SignIndex(longitude) == longitude \div SignWidth

getZodiacSign(longitude) ==
    LET signIndex == SignIndex(longitude)
        degreesInSign == JsRem(longitude, SignWidth)
    IN  [sign |-> IF signIndex \in 0..(Len(signs) - 1)
                  THEN signs[signIndex + 1] ELSE Undefined,
         degrees |-> degreesInSign]

InHouseNoWrap(longitude, cusp1, cusp2) == longitude >= cusp1 /\ longitude < cusp2
\* the test of one house: the arc from cusp1 to cusp2, which crosses 0
\* Aries when cusp1 > cusp2
InHouse(longitude, cusp1, cusp2) ==
    IF cusp1 > cusp2
    THEN longitude >= cusp1 \/ longitude < cusp2
    ELSE longitude >= cusp1 /\ longitude < cusp2

\* the loop of getHousePlacement from index i (0-based) on
RECURSIVE HouseFrom(_, _, _)
HouseFrom(longitude, houseCusps, i) ==
    IF i >= NumHouses THEN Null
    ELSE IF InHouse(longitude, houseCusps[i + 1],
                    houseCusps[((i + 1) % NumHouses) + 1])
         THEN Some(i + 1)
         ELSE HouseFrom(longitude, houseCusps, i + 1)

\* the house number as a one-element tuple, or Null
getHousePlacement(longitude, houseCusps) ==
    IF Len(houseCusps) < NumHouses THEN Null
    ELSE HouseFrom(longitude, houseCusps, 0)

-----------------------------------------------------------------------------
(* Aspect detector.                                                        *)

aspectNames == <<"conjunction", "opposition", "trine", "square", "sextile",
                 "quincunx">>
aspectTypes ==
    [conjunction |-> [angle |-> 0, orb |-> 8, color |-> "#4a4a4a"],
     opposition  |-> [angle |-> 180, orb |-> 8, color |-> "#ff4d4d"],
     trine       |-> [angle |-> 120, orb |-> 8, color |-> "#2b8a3e"],
     square      |-> [angle |-> 90, orb |-> 8, color |-> "#e03131"],
     sextile     |-> [angle |-> 60, orb |-> 6, color |-> "#1c7ed6"],
     quincunx    |-> [angle |-> 150, orb |-> 3, color |-> "#f08c00"]]

SeparationUnfolded(lon1, lon2) == Abs(lon1 - lon2)
SeparationSigned(lon1, lon2) ==
    LET angle == lon1 - lon2
    IN  IF angle > HalfCircle THEN FullCircle - angle ELSE angle
\* let angle = Math.abs(p1.longitude - p2.longitude);
\* if (angle > 180) angle = 360 - angle;
Separation(lon1, lon2) ==
    LET angle == Abs(lon1 - lon2)
    IN  IF angle > HalfCircle THEN FullCircle - angle ELSE angle

\* the for..in over aspectTypes from its k-th key on: the entries pushed
\* for the pair (at most one, because of the break)
RECURSIVE AspectOf(_, _, _, _)
AspectOf(name1, name2, angle, k) ==
    IF k > Len(aspectNames) THEN <<>>
    ELSE LET aspectName == aspectNames[k]
             aspect == aspectTypes[aspectName]
         IN  IF Abs(angle - aspect.angle) <= aspect.orb
             THEN << [planet1 |-> name1, planet2 |-> name2,
                      aspect |-> aspectName,
                      orb |-> Abs(angle - aspect.angle),
                      color |-> aspect.color] >>
             ELSE AspectOf(name1, name2, angle, k + 1)

FirstPartnerSelf(i) == i
\* for (let j = i + 1; ...
FirstPartner(i) == i + 1

\* the two nested loops over planetNames, at (i, j), 1-based
RECURSIVE AspectLoop(_, _, _, _, _)
AspectLoop(positions, planetNames, i, j, aspects) ==
    IF i > Len(planetNames) THEN aspects
    ELSE IF j > Len(planetNames)
         THEN AspectLoop(positions, planetNames, i + 1, FirstPartner(i + 1),
                         aspects)
         ELSE LET p1 == positions[planetNames[i]]
                  p2 == positions[planetNames[j]]
                  angle == Separation(p1.longitude, p2.longitude)
              IN  AspectLoop(positions, planetNames, i, j + 1,
                      aspects \o AspectOf(planetNames[i], planetNames[j],
                                          angle, 1))

calculateAspects(positions, planetNames) ==
    AspectLoop(positions, planetNames, 1, FirstPartner(1), <<>>)

-----------------------------------------------------------------------------
(* Collaborators: Google geocoding and time zone services, Swiss Ephemeris. *)

Places ==
    [x \in {"Greenwich, UK", "Greenwich, London SE10, UK"} |->
        [formatted_address |-> "Greenwich, London SE10, UK",
         geometry |-> [location |-> [lat |-> 51, lng |-> 0]]]]
    @@
    [x \in {"Tokyo", "Tokyo, Japan"} |->
        [formatted_address |-> "Tokyo, Japan",
         geometry |-> [location |-> [lat |-> 35, lng |-> 139]]]]

\* what axios.get(geocodeUrl) can give: the service's answer for the place,
\* a refusal of the service, or a rejected request
GeocodeAnswers(location) ==
    { IF location \in DOMAIN Places
      THEN [rejected |-> FALSE, status |-> "OK",
            results |-> <<Places[location]>>]
      ELSE [rejected |-> FALSE, status |-> "ZERO_RESULTS", results |-> <<>>],
      [rejected |-> FALSE, status |-> "OVER_QUERY_LIMIT", results |-> <<>>],
      [rejected |-> TRUE, status |-> "", results |-> <<>>] }

ZoneAt(lat, lng) == IF lng > 100 THEN "Asia/Tokyo" ELSE "Europe/London"
\* hours east of Greenwich (one fixed offset per zone)
ZoneOffset(zone) == IF zone = "Asia/Tokyo" THEN 9 ELSE 0

\* what axios.get(timezoneUrl) can give.  The request carries
\* localTime.toSeconds(), which is NaN when isoString does not parse; what
\* the service answers then is its own affair, so every answer is possible
TimezoneAnswers(lat, lng) ==
    { [rejected |-> FALSE, status |-> "OK", timeZoneId |-> ZoneAt(lat, lng)],
      [rejected |-> FALSE, status |-> "INVALID_REQUEST", timeZoneId |-> ""],
      [rejected |-> TRUE, status |-> "", timeZoneId |-> ""] }

planetOrder == <<"Sun", "Moon", "Mercury", "Venus", "Mars", "Jupiter",
                 "Saturn", "Uranus", "Neptune", "Pluto", "North Node",
                 "Chiron">>
\* Object.entries(planets), cut to the bodies the model computes
planets == SubSeq(planetOrder, 1, NumBodies)
PlanetSet == {planets[k] : k \in 1..Len(planets)}

HouseSystems == {"P", "W", "G"}

\* longitudes swe_calc_ut is let to answer; it answers in [0, 360)
LonSamples == {10, 18, 98, 130, 190, 280}

CalcFailure == [error |-> TRUE, longitude |-> 0]
CalcResults == {CalcFailure} \cup
               {[error |-> FALSE, longitude |-> l] : l \in LonSamples}

\* cusps of 12 houses: unequal houses whose 9th house crosses 0 Aries, and
\* whole-sign houses from 0 Aries
PlacidusLike == <<100, 125, 155, 190, 225, 255, 280, 305, 335, 10, 45, 75>>
WholeSign == [i \in 1..12 |-> (i - 1) * 30]
\* house system "G": 36 sectors, numbered against the order of the zodiac
GauquelinSectors == [i \in 1..36 |-> (460 - 10 * i) % FullCircle]
HousesFailure == [error |-> TRUE, asc |-> 0, mc |-> 0, house |-> <<>>]
HousesOk(cusps) == [error |-> FALSE, asc |-> cusps[1], mc |-> cusps[10],
                    house |-> cusps]

HouseAnswers ==
    { [P |-> HousesOk(PlacidusLike), W |-> HousesOk(WholeSign),
       G |-> HousesOk(GauquelinSectors)],
      [P |-> HousesFailure, W |-> HousesOk(WholeSign),
       G |-> HousesOk(GauquelinSectors)] }

\* every ephemeris the model lets the library be
AllSkies == { [houses |-> h, bodies |-> b] :
                 h \in HouseAnswers, b \in [PlanetSet -> CalcResults] }

-----------------------------------------------------------------------------
(* calculateChart.                                                         *)

ErrApiKey == "GEOCODING_API_KEY not found on the server."
ErrGeocode == "Could not geocode the provided location."
ErrTimezone == "Could not determine the timezone for the location."
ErrInvalidTime == "Invalid date or time provided"
ErrHouses == "House calculation failed"
ErrRequest == "Request failed"

InputsResolved(year, month, day, time, location, formattedLocation) ==
    [year |-> year, month |-> month, day |-> day, time |-> time,
     location |-> formattedLocation]
\* inputs: { year, month, day, time, location }
MetaInputs(year, month, day, time, location, formattedLocation) ==
    [year |-> year, month |-> month, day |-> day, time |-> time,
     location |-> location]

\* `${year}-${String(month).padStart(2, "0")}-${String(day).padStart(2, "0")}T${time}`
IsoString(year, month, day, time) ==
    Dec(year) \o <<"-">> \o Pad2(month) \o <<"-">> \o Pad2(day) \o <<"T">>
    \o time

PositionDataRawDegrees(result, houses, includeHouses) ==
    LET signInfo == getZodiacSign(result.longitude)
        positionData == [longitude |-> result.longitude,
                         sign |-> signInfo.sign,
                         sign_degrees |-> result.longitude]
    IN  IF includeHouses /\ houses # Null
        THEN positionData @@
             [house |-> getHousePlacement(result.longitude, houses[1].cusps)]
        ELSE positionData
\* the object stored under positions[name]
PositionData(result, houses, includeHouses) ==
    LET signInfo == getZodiacSign(result.longitude)
        positionData == [longitude |-> result.longitude,
                         sign |-> signInfo.sign,
                         sign_degrees |-> signInfo.degrees]
    IN  IF includeHouses /\ houses # Null
        THEN positionData @@
             [house |-> getHousePlacement(result.longitude, houses[1].cusps)]
        ELSE positionData

PlanetStepNoContinue(positions, name, result, houses, includeHouses) ==
    positions @@ (name :> PositionData(result, houses, includeHouses))
\* one turn of the loop over the planets
PlanetStep(positions, name, result, houses, includeHouses) ==
    IF result.error THEN positions
    ELSE positions @@ (name :> PositionData(result, houses, includeHouses))

RECURSIVE PlanetLoop(_, _, _, _, _)
PlanetLoop(k, positions, eph, houses, includeHouses) ==
    IF k > Len(planets) THEN positions
    ELSE PlanetLoop(k + 1,
                    PlanetStep(positions, planets[k], eph.bodies[planets[k]],
                               houses, includeHouses),
                    eph, houses, includeHouses)

\* Object.keys(chartData.positions): the keys in insertion order
KeysInOrder(positions) == SelectSeq(planets, LAMBDA n : n \in DOMAIN positions)

HousesNeverThrow(includeHouses, housesResult) == FALSE
\* if (includeHouses) { ... if (housesResult.error) throw ... }
HousesThrow(includeHouses, housesResult) ==
    includeHouses /\ housesResult.error

CuspsUncut(house) == house
\* housesResult.house.slice(0, 12)
Cusps(house) ==
    SubSeq(house, 1, IF Len(house) < NumHouses THEN Len(house) ELSE NumHouses)

ChartHousesAlways(includeHouses, houseSystem, housesResult) ==
    Some([system |-> houseSystem, ascendant |-> housesResult.asc,
          mc |-> housesResult.mc, cusps |-> Cusps(housesResult.house)])
\* chartData.houses: null unless houses are asked for
ChartHouses(includeHouses, houseSystem, housesResult) ==
    IF includeHouses
    THEN Some([system |-> houseSystem, ascendant |-> housesResult.asc,
               mc |-> housesResult.mc, cusps |-> Cusps(housesResult.house)])
    ELSE Null

\* calculateChart from swe_set_ephe_path to its return or throw, for the
\* arguments a, the geocoded place geo and the UTC time utcTime, under the
\* ephemeris eph; closed tells whether swe_close was reached
Ephemeris(a, geo, utcTime, eph) ==
    LET housesResult == eph.houses[a.houseSystem]
        houses == ChartHouses(a.includeHouses, a.houseSystem, housesResult)
        positions == PlanetLoop(1, <<>>, eph, houses, a.includeHouses)
        chartData ==
            [meta |-> [date |-> FormatUtcStamp(utcTime),
                       location |-> geo.formatted_address,
                       latitude |-> geo.geometry.location.lat,
                       longitude |-> geo.geometry.location.lng,
                       inputs |-> MetaInputs(a.year, a.month, a.day, a.time,
                                             a.location,
                                             geo.formatted_address)],
             positions |-> positions,
             houses |-> houses,
             aspects |-> calculateAspects(positions, KeysInOrder(positions))]
    IN  IF HousesThrow(a.includeHouses, housesResult)
        THEN [pc |-> "thrown", error |-> ErrHouses, chartData |-> Null,
              closed |-> FALSE]
        ELSE [pc |-> "returned", error |-> "", chartData |-> Some(chartData),
              closed |-> TRUE]

Callers == {"job", "api"}

\* sweph: "none" while the call has made no library call, "open" once it
\* has called swe_set_ephe_path, "closed" once it has called swe_close
NoCall == [pc |-> "idle", args |-> Null, geo |-> Null, isoString |-> <<>>,
           tzData |-> Null, sweph |-> "none", error |-> "",
           chartData |-> Null]

Args(year, month, day, time, location, includeHouses, houseSystem) ==
    [year |-> year, month |-> month, day |-> day, time |-> time,
     location |-> location, includeHouses |-> includeHouses,
     houseSystem |-> houseSystem]

Thrown(c, message) == [c EXCEPT !.pc = "thrown", !.error = message]

\* the call up to its first await: the API key check, then the geocoding
\* request is on its way
BeginCall(a, keySet) ==
    IF ~keySet THEN Thrown([NoCall EXCEPT !.args = Some(a)], ErrApiKey)
    ELSE [NoCall EXCEPT !.pc = "geocode", !.args = Some(a)]

\* from the geocoder's answer to the second await
AfterGeocode(c, answer) ==
    LET a == c.args[1]
    IN  IF answer.rejected THEN Thrown(c, ErrRequest)
        ELSE IF answer.status # "OK" \/ Len(answer.results) = 0
             THEN Thrown(c, ErrGeocode)
             ELSE [c EXCEPT !.pc = "timezone",
                            !.geo = Some(answer.results[1]),
                            !.isoString = IsoString(a.year, a.month, a.day,
                                                    a.time)]

TimezoneNeverFails(answer) == FALSE
\* if (tzData.status !== "OK") throw ...
TimezoneFails(answer) == answer.status # "OK"

InvalidTimeUnchecked(utcTime) == FALSE
\* if (!utcTime.isValid) throw ...
InvalidTime(utcTime) == ~utcTime.isValid

\* from the time zone service's answer to the return or throw of the call
AfterTimezone(c, answer, eph) ==
    LET a == c.args[1]
        utcTime == ToUTC(FromISO(c.isoString), ZoneOffset(answer.timeZoneId))
        r == Ephemeris(a, c.geo[1], utcTime, eph)
        t == [c EXCEPT !.tzData = Some(answer)]
    IN  IF answer.rejected THEN Thrown(c, ErrRequest)
        ELSE IF TimezoneFails(answer) THEN Thrown(t, ErrTimezone)
        ELSE IF InvalidTime(utcTime) THEN Thrown(t, ErrInvalidTime)
        ELSE [t EXCEPT !.pc = r.pc, !.error = r.error,
                       !.chartData = r.chartData,
                       !.sweph = IF r.closed THEN "closed" ELSE "open"]

\* whether the call reached swe_set_ephe_path, and whether it left the
\* library open (a throw between swe_set_ephe_path and swe_close)
ReachesEphemeris(c, answer) ==
    /\ ~answer.rejected /\ ~TimezoneFails(answer)
    /\ ~InvalidTime(ToUTC(FromISO(c.isoString),
                          ZoneOffset(answer.timeZoneId)))

CalcGeocoded(c) ==
    /\ call[c].pc = "geocode"
    /\ \E answer \in GeocodeAnswers(call[c].args[1].location) :
           call' = [call EXCEPT ![c] = AfterGeocode(call[c], answer)]
    /\ UNCHANGED <<geocodingApiKey, ephe, store, jobPc, jobConn, jobReleases,
                   events, idx, log, req, swephOpen, arg, ret,
                   chatVars, scriptVars, produced>>

LocalsOfJobSeen(calls, c) ==
    IF calls["job"].isoString = <<>> THEN calls[c]
    ELSE [calls[c] EXCEPT !.isoString = calls["job"].isoString]
LocalsShared(calls, c) ==
    LET other == CHOOSE o \in Callers : o # c
    IN  IF calls[other].isoString = <<>> THEN calls[c]
        ELSE [calls[c] EXCEPT !.isoString = calls[other].isoString]
\* the variables of the call c: each call of calculateChart has its own
\* (const geoData, isoString, tzData, chartData ...)
Locals(calls, c) == calls[c]

CalcTimezoned(c) ==
    /\ call[c].pc = "timezone"
    /\ \E answer \in TimezoneAnswers(call[c].geo[1].geometry.location.lat,
                                     call[c].geo[1].geometry.location.lng) :
           /\ call' = [call EXCEPT ![c] =
                         AfterTimezone(Locals(call, c), answer, ephe)]
           /\ swephOpen' = IF ReachesEphemeris(Locals(call, c), answer)
                           THEN call'[c].pc = "thrown"
                           ELSE swephOpen
    /\ UNCHANGED <<geocodingApiKey, ephe, store, jobPc, jobConn, jobReleases,
                   events, idx, log, req, arg, ret,
                   chatVars, scriptVars, produced>>

-----------------------------------------------------------------------------
(* The table astro_event_data and what it holds at startup.                *)

\* JSON.stringify(value); the column holds text
JsonStringify(value) == [wellFormed |-> TRUE, value |-> value]
MalformedText == [wellFormed |-> FALSE, value |-> Null]
\* JSON.parse(text): the value, or a SyntaxError
JsonParse(text) == [threw |-> ~text.wellFormed, value |-> text.value]

Clock1200 == <<"1", "2", ":", "0", "0">>
Clock0030 == <<"0", "0", ":", "3", "0">>

\* what a client sent to POST /api/natal-chart
InputSamples ==
    { [year |-> 2000, month |-> 1, day |-> 1, time |-> Clock1200,
       location |-> "Greenwich, UK"],
      [year |-> 2000, month |-> 1, day |-> 1, time |-> Clock0030,
       location |-> "Tokyo"],
      [year |-> 2000, month |-> 2, day |-> 30, time |-> Clock1200,
       location |-> "Greenwich, UK"],
      [year |-> 2000, month |-> 1, day |-> 1, time |-> Clock1200,
       location |-> "Atlantis"] }

SampleLon(k) == <<10, 98, 190, 280, 130, 18>>[((k - 1) % 6) + 1]
SkyAt(shift, houses) ==
    [houses |-> houses,
     bodies |-> [n \in PlanetSet |->
                   [error |-> FALSE,
                    longitude |-> SampleLon(shift +
                        CHOOSE k \in 1..Len(planets) : planets[k] = n)]]]
HousesBothOk == [P |-> HousesOk(PlacidusLike), W |-> HousesOk(WholeSign),
                 G |-> HousesOk(GauquelinSectors)]

\* the ephemeris that computed the charts found in the table at startup
OldSky == SkyAt(1, HousesBothOk)
\* the ephemerides the job runs under: all bodies and houses answered,
\* the houses of system P refused, the first body refused
JobSkies ==
    { SkyAt(0, HousesBothOk),
      SkyAt(0, [HousesBothOk EXCEPT !.P = HousesFailure]),
      [SkyAt(0, HousesBothOk) EXCEPT !.bodies[planets[1]] = CalcFailure] }

\* a chart written by calculateChart for the inputs i, which resolved to
\* the place geo in a zone offHours east of Greenwich
ChartOf(i, geo, offHours) ==
    Ephemeris(Args(i.year, i.month, i.day, i.time, i.location, TRUE, "P"),
              geo,
              ToUTC(FromISO(IsoString(i.year, i.month, i.day, i.time)),
                    offHours),
              OldSky).chartData[1]

\* a chart in the format of the earlier server: meta.date and
\* meta.location, no meta.inputs, positions without signs
LegacyChart(date, geo) ==
    [meta |-> [date |-> date,
               location |-> geo.formatted_address,
               latitude |-> geo.geometry.location.lat,
               longitude |-> geo.geometry.location.lng],
     positions |-> [n \in PlanetSet |->
                      [longitude |-> OldSky.bodies[n].longitude]],
     houses |-> Some([system |-> "P", ascendant |-> PlacidusLike[1],
                      mc |-> PlacidusLike[10], cusps |-> PlacidusLike]),
     aspects |-> <<>>]

UtcStamp(y, mo, d, h, mi, s) ==
    FormatUtcStamp([isValid |-> TRUE, year |-> y, month |-> mo, day |-> d,
                    hour |-> h, minute |-> mi, second |-> s])

\* "2000-01-01T12:00:00Z": a date that DateTime.fromSQL does not read
IsoStamp == IsoString(2000, 1, 1, Clock1200 \o <<":", "0", "0", "Z">>)

ChartSamples ==
    { ChartOf(CHOOSE i \in InputSamples : i.location = "Greenwich, UK"
                                          /\ i.day = 1,
              Places["Greenwich, UK"], 0),
      ChartOf(CHOOSE i \in InputSamples : i.location = "Tokyo",
              Places["Tokyo"], 9),
      LegacyChart(UtcStamp(1999, 12, 31, 15, 30, 0), Places["Tokyo"]),
      LegacyChart(UtcStamp(0, 6, 15, 12, 0, 0), Places["Greenwich, UK"]),
      LegacyChart(IsoStamp, Places["Greenwich, UK"]) }

RowSamples ==
    { [user_id |-> "user-1", label |-> "Natal", event_data |-> e] :
        e \in {JsonStringify(c) : c \in ChartSamples} \cup {MalformedText} }

\* SELECT event_id, event_data FROM astro_event_data
RECURSIVE SelectFrom(_, _)
SelectFrom(st, ids) ==
    IF ids = {} THEN <<>>
    ELSE LET eventId == CHOOSE x \in ids : \A y \in ids : x <= y
         IN  << [event_id |-> eventId, event_data |-> st[eventId].event_data] >>
             \o SelectFrom(st, ids \ {eventId})
SelectAll(st) == SelectFrom(st, DOMAIN st)

UpdateFirstRow(st, eventId, text) ==
    [id \in DOMAIN st |->
        IF id = 1 THEN [st[id] EXCEPT !.event_data = text] ELSE st[id]]
UpdateEveryRow(st, eventId, text) ==
    [id \in DOMAIN st |-> [st[id] EXCEPT !.event_data = text]]
\* UPDATE astro_event_data SET event_data = ? WHERE event_id = ?
UpdateEventData(st, eventId, text) ==
    [id \in DOMAIN st |->
        IF id = eventId THEN [st[id] EXCEPT !.event_data = text] ELSE st[id]]

-----------------------------------------------------------------------------
(* recalculateAllChartsOnStartup.                                          *)

RecoverInputsFromDate(data) ==
    IF /\ Has(data, "meta")
       /\ Has(data.meta, "date") /\ Len(data.meta.date) > 0
       /\ Has(data.meta, "location") /\ data.meta.location # ""
    THEN LET utcDate == FromSQL(StripUtc(data.meta.date))
         IN  IF utcDate.isValid
             THEN Some([year |-> utcDate.year, month |-> utcDate.month,
                        day |-> utcDate.day, time |-> FormatClock(utcDate),
                        location |-> data.meta.location])
             ELSE Null
    ELSE Null
\* the inputs of a stored chart: meta.inputs, or the fields of meta.date
\* read as a UTC time with meta.location; Null when neither is there
RecoverInputs(data) ==
    IF Has(data, "meta") /\ Has(data.meta, "inputs")
    THEN Some(data.meta.inputs)
    ELSE IF /\ Has(data, "meta")
            /\ Has(data.meta, "date") /\ Len(data.meta.date) > 0
            /\ Has(data.meta, "location") /\ data.meta.location # ""
         THEN LET dateString == StripUtc(data.meta.date)
                  utcDate == FromSQL(dateString)
              IN  IF utcDate.isValid
                  THEN Some([year |-> utcDate.year, month |-> utcDate.month,
                             day |-> utcDate.day,
                             time |-> FormatClock(utcDate),
                             location |-> data.meta.location])
                  ELSE Null
         ELSE Null

\* !inputs || !inputs.year || !inputs.month || !inputs.day || !inputs.time
\* || !inputs.location
MissingInputs(inputs) ==
    \/ inputs = Null
    \/ ~Has(inputs[1], "year") \/ inputs[1].year = 0
    \/ ~Has(inputs[1], "month") \/ inputs[1].month = 0
    \/ ~Has(inputs[1], "day") \/ inputs[1].day = 0
    \/ ~Has(inputs[1], "time") \/ Len(inputs[1].time) = 0
    \/ ~Has(inputs[1], "location") \/ inputs[1].location = ""

Logged(outcome) ==
    Append(log, [event_id |-> events[idx].event_id, outcome |-> outcome])

AfterRecordErrorAbort == "finally"
\* where the job goes on after the catch inside the loop
AfterRecordError == "loop"

AfterCriticalErrorRethrown == "rejected"
\* where the job goes on after the catch around its whole body: the error
\* is logged and the finally block runs
AfterCriticalError == "finally"

\* conn = await pool.getConnection()
JobConnect ==
    /\ jobPc = "start"
    /\ \E ok \in BOOLEAN :
          IF ok THEN jobConn' = "held" /\ jobPc' = "select"
          ELSE jobConn' = jobConn /\ jobPc' = AfterCriticalError
    /\ UNCHANGED <<geocodingApiKey, ephe, store, jobReleases, events, idx,
                   log, call, req, swephOpen, arg, ret,
                   chatVars, scriptVars, produced>>

\* the SELECT and what follows it up to the loop
JobSelect ==
    /\ jobPc = "select"
    /\ \E ok \in BOOLEAN :
          IF ~ok
          THEN /\ jobPc' = AfterCriticalError
               /\ UNCHANGED <<events, jobConn, jobReleases>>
          ELSE /\ events' = SelectAll(store)
               /\ IF Len(events') = 0
                  THEN \* conn.release(); return; then the finally block
                       /\ jobConn' = "released"
                       /\ jobReleases' = jobReleases + 2
                       /\ jobPc' = "done"
                  ELSE /\ jobPc' = "loop"
                       /\ UNCHANGED <<jobConn, jobReleases>>
    /\ UNCHANGED <<geocodingApiKey, ephe, store, idx, log, call, req,
                   swephOpen, arg, ret,
                   chatVars, scriptVars, produced>>

NotAwaitingCalculation == "loop"
\* where the loop is while calculateChart runs: at its await
AwaitingCalculation == "calc"

\* one turn of the loop up to its await of calculateChart
JobRecord ==
    /\ jobPc = "loop"
    /\ idx <= Len(events)
    /\ LET parsed == JsonParse(events[idx].event_data)
           inputs == RecoverInputs(parsed.value)
       IN  IF parsed.threw
           THEN /\ log' = Logged("failed")
                /\ idx' = idx + 1
                /\ jobPc' = AfterRecordError
                /\ call' = call
           ELSE IF MissingInputs(inputs)
           THEN /\ log' = Logged("skipped")
                /\ idx' = idx + 1
                /\ UNCHANGED <<jobPc, call>>
           ELSE /\ call' = [call EXCEPT !["job"] =
                       BeginCall(Args(inputs[1].year, inputs[1].month,
                                      inputs[1].day, inputs[1].time,
                                      inputs[1].location, TRUE, "P"),
                                 geocodingApiKey)]
                /\ jobPc' = AwaitingCalculation
                /\ UNCHANGED <<log, idx>>
    /\ UNCHANGED <<geocodingApiKey, ephe, store, jobConn, jobReleases, events,
                   req, swephOpen, arg, ret,
                   chatVars, scriptVars, produced>>

\* calculateChart settled: the UPDATE is sent, or the catch logs the error
JobCalculated ==
    /\ jobPc = "calc"
    /\ call["job"].pc \in {"returned", "thrown"}
    /\ IF call["job"].pc = "returned"
       THEN /\ jobPc' = "update"
            /\ UNCHANGED <<log, idx, call>>
       ELSE /\ log' = Logged("failed")
            /\ idx' = idx + 1
            /\ jobPc' = AfterRecordError
            /\ call' = [call EXCEPT !["job"] = NoCall]
    /\ UNCHANGED <<geocodingApiKey, ephe, store, jobConn, jobReleases, events,
                   req, swephOpen, arg, ret,
                   chatVars, scriptVars, produced>>

\* the UPDATE settled
JobUpdated ==
    /\ jobPc = "update"
    /\ \E ok \in BOOLEAN :
          IF ok
          THEN /\ store' = UpdateEventData(store, events[idx].event_id,
                               JsonStringify(call["job"].chartData[1]))
               /\ log' = Logged("recalculated")
               /\ jobPc' = "loop"
          ELSE /\ store' = store
               /\ log' = Logged("failed")
               /\ jobPc' = AfterRecordError
    /\ idx' = idx + 1
    /\ call' = [call EXCEPT !["job"] = NoCall]
    /\ UNCHANGED <<geocodingApiKey, ephe, jobConn, jobReleases, events, req,
                   swephOpen, arg, ret,
                   chatVars, scriptVars, produced>>

\* the loop is over
JobLoopEnd ==
    /\ jobPc = "loop"
    /\ idx > Len(events)
    /\ jobPc' = "finally"
    /\ UNCHANGED <<geocodingApiKey, ephe, store, jobConn, jobReleases, events,
                   idx, log, call, req, swephOpen, arg, ret,
                   chatVars, scriptVars, produced>>

\* finally { if (conn) conn.release(); }
JobFinally ==
    /\ jobPc = "finally"
    /\ jobPc' = "done"
    /\ IF jobConn # "none"
       THEN jobConn' = "released" /\ jobReleases' = jobReleases + 1
       ELSE UNCHANGED <<jobConn, jobReleases>>
    /\ UNCHANGED <<geocodingApiKey, ephe, store, events, idx, log, call, req,
                   swephOpen, arg, ret,
                   chatVars, scriptVars, produced>>

\* no POST /api/chat is looked at
NoChat == stats = Null /\ chats = <<>> /\ today = 0 /\ served = <<>>
\* the normalization script is not run
NoScript == messages = <<>> /\ conversations = <<>> /\ script = Null
\* the job has not run before
NoRerun == produced = Null
NoStandalone == arg = Null /\ ret = Null /\ NoScript /\ NoRerun
NoRequest == req = [pc |-> "idle"] /\ NoChat

Init ==
    /\ geocodingApiKey \in BOOLEAN
    /\ ephe \in JobSkies
    /\ \E n \in 0..MaxRecords : store \in [1..n -> RowSamples]
    /\ jobPc = "start"
    /\ jobConn = "none"
    /\ jobReleases = 0
    /\ events = <<>>
    /\ idx = 1
    /\ log = <<>>
    /\ call = [c \in Callers |-> NoCall]
    /\ swephOpen = FALSE
    /\ NoRequest
    /\ NoStandalone

Next ==
    \/ JobConnect
    \/ JobSelect
    \/ JobRecord
    \/ CalcGeocoded("job")
    \/ CalcTimezoned("job")
    \/ JobCalculated
    \/ JobUpdated
    \/ JobLoopEnd
    \/ JobFinally

Spec == Init /\ [][Next]_vars

\* the server is started again after a run of the job that got through its
\* snapshot: the job runs once more, over the table the first run left
JobAgain ==
    /\ jobPc = "done"
    /\ produced = Null
    /\ Len(events) > 0 /\ Len(log) = Len(events)
    /\ produced' = Some([store |-> store, log |-> log])
    /\ jobPc' = "start"
    /\ jobConn' = "none"
    /\ jobReleases' = 0
    /\ events' = <<>>
    /\ idx' = 1
    /\ log' = <<>>
    /\ UNCHANGED <<geocodingApiKey, ephe, store, call, req, swephOpen, arg,
                   ret, chatVars, scriptVars>>

NextRerun == Next \/ JobAgain

SpecRerun == Init /\ [][NextRerun]_vars

-----------------------------------------------------------------------------
(* Chart requests of the API: POST /api/ephemeris, which computes a chart  *)
(* with houses and answers with it, and the transit chart of POST          *)
(* /api/chat, computed without houses.  Both are taken from the point      *)
(* where the caller is authenticated.                                      *)

ValidDate(i) == FromISO(IsoString(i.year, i.month, i.day, i.time)).isValid

\* const chartData = await calculateChart(year, month, day, time, location,
\*                                        true, houseSystem)
ApiEphemeris ==
    /\ req.pc = "idle"
    /\ \E i \in InputSamples, houseSystem \in HouseSystems :
          /\ req' = [pc |-> "pending", route |-> "ephemeris", body |-> i,
                     houseSystem |-> houseSystem, status |-> 0,
                     json |-> Null, error |-> ""]
          /\ call' = [call EXCEPT !["api"] =
                        BeginCall(Args(i.year, i.month, i.day, i.time,
                                       i.location, TRUE, houseSystem),
                                  geocodingApiKey)]
    /\ UNCHANGED <<geocodingApiKey, ephe, store, jobPc, jobConn, jobReleases,
                   events, idx, log, swephOpen, arg, ret,
                   chatVars, scriptVars, produced>>

\* const transitChart = await calculateChart(..., transitLocation, false,
\*                                           houseSystem)
ChatTransit ==
    /\ req.pc = "idle"
    /\ \E i \in {x \in InputSamples : ValidDate(x)},
          houseSystem \in HouseSystems :
          /\ req' = [pc |-> "pending", route |-> "transit", body |-> i,
                     houseSystem |-> houseSystem, status |-> 0,
                     json |-> Null, error |-> ""]
          /\ call' = [call EXCEPT !["api"] =
                        BeginCall(Args(i.year, i.month, i.day, i.time,
                                       i.location, FALSE, houseSystem),
                                  geocodingApiKey)]
    /\ UNCHANGED <<geocodingApiKey, ephe, store, jobPc, jobConn, jobReleases,
                   events, idx, log, swephOpen, arg, ret,
                   chatVars, scriptVars, produced>>

\* the chart is answered (or kept as the transit context); an error is
\* answered with status 500 (or logged and the transit context left out)
ApiSettled ==
    /\ req.pc = "pending"
    /\ call["api"].pc \in {"returned", "thrown"}
    /\ req' = [req EXCEPT !.pc = "responded",
                          !.status = IF call["api"].pc = "returned" THEN 200
                                     ELSE 500,
                          !.json = call["api"].chartData,
                          !.error = call["api"].error]
    /\ call' = [call EXCEPT !["api"] = NoCall]
    /\ UNCHANGED <<geocodingApiKey, ephe, store, jobPc, jobConn, jobReleases,
                   events, idx, log, swephOpen, arg, ret,
                   chatVars, scriptVars, produced>>

\* the job is not part of this specification, and the table is empty
NoJob ==
    /\ store = <<>>
    /\ jobPc = "off"
    /\ jobConn = "none"
    /\ jobReleases = 0
    /\ events = <<>>
    /\ idx = 1
    /\ log = <<>>

InitChart ==
    /\ geocodingApiKey \in BOOLEAN
    /\ ephe \in AllSkies
    /\ NoJob
    /\ call = [c \in Callers |-> NoCall]
    /\ swephOpen = FALSE
    /\ NoRequest
    /\ NoStandalone

NextChart ==
    \/ ApiEphemeris
    \/ ChatTransit
    \/ CalcGeocoded("api")
    \/ CalcTimezoned("api")
    \/ ApiSettled

SpecChart == InitChart /\ [][NextChart]_vars

-----------------------------------------------------------------------------
(* PUT /api/astro-event/:eventId, from the point where the caller is       *)
(* authenticated as updatedFields.userId and eventId is a number, and the  *)
(* server as a whole: the startup job and the API requests, which run      *)
(* interleaved at their awaits.                                            *)

InputFields == {"year", "month", "day", "time", "location"}

\* req.body of a PUT: another house system, another year and label, a
\* request of somebody who owns no event
PutBodies ==
    { [userId |-> "user-1", houseSystem |-> "W"],
      [userId |-> "user-1", year |-> 2001, label |-> "Renamed"],
      [userId |-> "user-2", year |-> 2001] }

NewInputsStoredFirst(existingData, updatedFields) ==
    (IF Has(existingData.meta, "inputs")
     THEN existingData.meta.inputs ELSE <<>>) @@ updatedFields
\* { ...existingData.meta.inputs, ...updatedFields }
NewInputs(existingData, updatedFields) ==
    updatedFields @@ (IF Has(existingData.meta, "inputs")
                      THEN existingData.meta.inputs ELSE <<>>)

\* !year || !month || !day || !time || !location
MissingFields(newInputs) ==
    \/ \E f \in InputFields : ~Has(newInputs, f)
    \/ newInputs.year = 0 \/ newInputs.month = 0 \/ newInputs.day = 0
    \/ Len(newInputs.time) = 0 \/ newInputs.location = ""

\* calculateChart(year, month, day, time, location, houseSystem): the house
\* system of the body arrives as includeHouses, and houseSystem is "P"
PutArgs(newInputs) ==
    Args(newInputs.year, newInputs.month, newInputs.day, newInputs.time,
         newInputs.location,
         IF Has(newInputs, "houseSystem") THEN newInputs.houseSystem # ""
         ELSE TRUE,
         "P")

\* SELECT event_data, label FROM astro_event_data WHERE user_id = ? AND
\* event_id = ?
SelectOwned(st, userId, eventId) ==
    IF eventId \in DOMAIN st /\ st[eventId].user_id = userId
    THEN <<st[eventId]>> ELSE <<>>

\* UPDATE astro_event_data SET label = ?, event_data = ? WHERE event_id = ?
UpdateLabelAndData(st, eventId, label, text) ==
    [id \in DOMAIN st |->
        IF id = eventId
        THEN [st[id] EXCEPT !.label = label, !.event_data = text]
        ELSE st[id]]

\* the response of the handler; its finally block releases the connection
PutResponded(r, status, json, error) ==
    [r EXCEPT !.pc = "responded", !.status = status, !.json = json,
              !.error = error,
              !.conn = IF r.conn = "none" THEN "none" ELSE "released"]

ErrPut == "An error occurred while updating the event."
ErrPutMissing == "Update would result in missing date, time, or location."
ErrPutNotFound == "Event not found for this user."

\* the request arrives, for the first event of the table; conn = await
\* pool.getConnection() is under way
ApiPut ==
    /\ req.pc = "idle"
    /\ \E updatedFields \in PutBodies, eventId \in {1} :
          req' = [pc |-> "connect", route |-> "put", body |-> updatedFields,
                  eventId |-> eventId, conn |-> "none", label |-> "",
                  status |-> 0, json |-> Null, error |-> ""]
    /\ UNCHANGED <<geocodingApiKey, ephe, store, jobPc, jobConn, jobReleases,
                   events, idx, log, call, swephOpen, arg, ret,
                   chatVars, scriptVars, produced>>

\* the connection is had and the SELECT is sent, or the request fails
PutConnected ==
    /\ req.pc = "connect"
    /\ \E ok \in BOOLEAN :
          req' = IF ok THEN [req EXCEPT !.pc = "select", !.conn = "held"]
                 ELSE PutResponded(req, 500, Null, ErrPut)
    /\ UNCHANGED <<geocodingApiKey, ephe, store, jobPc, jobConn, jobReleases,
                   events, idx, log, call, swephOpen, arg, ret,
                   chatVars, scriptVars, produced>>

\* the SELECT settled: from its rows to the await of calculateChart
PutSelected ==
    /\ req.pc = "select"
    /\ \E ok \in BOOLEAN :
          LET rows == SelectOwned(store, req.body.userId, req.eventId)
              parsed == JsonParse(rows[1].event_data)
              newInputs == NewInputs(parsed.value, req.body)
              newLabel == IF Has(req.body, "label") /\ req.body.label # ""
                          THEN req.body.label ELSE rows[1].label
          IN  IF ~ok
              THEN req' = PutResponded(req, 500, Null, ErrPut) /\ call' = call
              ELSE IF Len(rows) = 0
              THEN /\ req' = PutResponded(req, 404, Null, ErrPutNotFound)
                   /\ call' = call
              ELSE IF parsed.threw
              THEN req' = PutResponded(req, 500, Null, ErrPut) /\ call' = call
              ELSE IF MissingFields(newInputs)
              THEN /\ req' = PutResponded(req, 400, Null, ErrPutMissing)
                   /\ call' = call
              ELSE /\ req' = [req EXCEPT !.pc = "calc", !.label = newLabel]
                   /\ call' = [call EXCEPT !["api"] =
                                 BeginCall(PutArgs(newInputs),
                                           geocodingApiKey)]
    /\ UNCHANGED <<geocodingApiKey, ephe, store, jobPc, jobConn, jobReleases,
                   events, idx, log, swephOpen, arg, ret,
                   chatVars, scriptVars, produced>>

\* calculateChart settled: the UPDATE is sent, or the catch answers 500
PutCalculated ==
    /\ req.pc = "calc"
    /\ call["api"].pc \in {"returned", "thrown"}
    /\ IF call["api"].pc = "returned"
       THEN req' = [req EXCEPT !.pc = "update"] /\ call' = call
       ELSE /\ req' = PutResponded(req, 500, Null, ErrPut)
            /\ call' = [call EXCEPT !["api"] = NoCall]
    /\ UNCHANGED <<geocodingApiKey, ephe, store, jobPc, jobConn, jobReleases,
                   events, idx, log, swephOpen, arg, ret,
                   chatVars, scriptVars, produced>>

\* the UPDATE settled: the chart is answered with its event_id
PutUpdated ==
    /\ req.pc = "update"
    /\ \E ok \in BOOLEAN :
          IF ok
          THEN /\ store' = UpdateLabelAndData(store, req.eventId, req.label,
                               JsonStringify(call["api"].chartData[1]))
               /\ req' = PutResponded(req, 200,
                             Some(call["api"].chartData[1]
                                  @@ [event_id |-> req.eventId]), "")
          ELSE /\ store' = store
               /\ req' = PutResponded(req, 500, Null, ErrPut)
    /\ call' = [call EXCEPT !["api"] = NoCall]
    /\ UNCHANGED <<geocodingApiKey, ephe, jobPc, jobConn, jobReleases, events,
                   idx, log, swephOpen, arg, ret,
                   chatVars, scriptVars, produced>>

\* the rows the table holds when the whole server is looked at: a chart
\* with meta.inputs and a chart of the earlier format
ServerRows ==
    { r \in RowSamples :
        /\ r.event_data.wellFormed
        /\ LET data == r.event_data.value
           IN  IF Has(data.meta, "inputs")
               THEN data.meta.inputs.location = "Greenwich, UK"
               ELSE data.meta.date = UtcStamp(1999, 12, 31, 15, 30, 0) }

InitServer ==
    /\ geocodingApiKey = TRUE
    /\ ephe \in JobSkies
    /\ \E n \in 1..MaxRecords : store \in [1..n -> ServerRows]
    /\ jobPc = "start"
    /\ jobConn = "none"
    /\ jobReleases = 0
    /\ events = <<>>
    /\ idx = 1
    /\ log = <<>>
    /\ call = [c \in Callers |-> NoCall]
    /\ swephOpen = FALSE
    /\ NoRequest
    /\ NoStandalone

\* POST /api/ephemeris as the server is asked while the job runs: on the
\* default house system
ServerEphemeris ==
    /\ ApiEphemeris
    /\ req'.houseSystem = "P"

NextServer ==
    \/ JobConnect
    \/ JobSelect
    \/ JobRecord
    \/ CalcGeocoded("job")
    \/ CalcTimezoned("job")
    \/ JobCalculated
    \/ JobUpdated
    \/ JobLoopEnd
    \/ JobFinally
    \/ ServerEphemeris
    \/ ApiSettled
    \/ ApiPut
    \/ PutConnected
    \/ PutSelected
    \/ PutCalculated
    \/ PutUpdated
    \/ CalcGeocoded("api")
    \/ CalcTimezoned("api")

SpecServer == InitServer /\ [][NextServer]_vars

-----------------------------------------------------------------------------
(* The classifiers applied on their own, to longitudes and cusps that no   *)
(* chart of the model carries.                                             *)

NoServer ==
    /\ geocodingApiKey = TRUE
    /\ ephe = OldSky
    /\ NoJob
    /\ call = [c \in Callers |-> NoCall]
    /\ swephOpen = FALSE
    /\ NoRequest

Longitudes == 0..(FullCircle - 1)

InitSign ==
    /\ NoServer
    /\ NoScript
    /\ NoRerun
    /\ \E longitude \in Longitudes, k \in (-MaxTurns)..MaxTurns :
          arg = Some([longitude |-> longitude, turns |-> k])
    /\ ret = Null

\* getZodiacSign at L and at L + 360k
ApplySign ==
    /\ ret = Null
    /\ ret' = Some([base |-> getZodiacSign(arg[1].longitude),
                    turned |-> getZodiacSign(arg[1].longitude +
                                             FullCircle * arg[1].turns)])
    /\ UNCHANGED <<geocodingApiKey, ephe, store, jobPc, jobConn, jobReleases,
                   events, idx, log, call, req, swephOpen, arg,
                   chatVars, scriptVars, produced>>

SpecSign == InitSign /\ [][ApplySign]_vars

Grid == {k * (FullCircle \div GridN) : k \in 0..(GridN - 1)}

RECURSIVE Ascending(_)
Ascending(S) ==
    IF S = {} THEN <<>>
    ELSE LET least == CHOOSE x \in S : \A y \in S : x <= y
         IN  <<least>> \o Ascending(S \ {least})
Rotate(q, r) == [i \in 1..Len(q) |-> q[((i - 1 + r) % Len(q)) + 1]]
Reverse(q) == [i \in 1..Len(q) |-> q[Len(q) + 1 - i]]

\* twelve cusps in the order of the zodiac, house 1 starting anywhere
ZodiacalCusps ==
    { Rotate(Ascending(S), r) :
        S \in {T \in SUBSET Grid : Cardinality(T) = NumHouses},
        r \in 0..(NumHouses - 1) }
\* twelve sectors numbered against the order of the zodiac, as the first
\* twelve of the 36 Gauquelin sectors (house system "G") are
ClockwiseCusps ==
    { Reverse(Ascending(S)) :
        S \in {T \in SUBSET Grid : Cardinality(T) = NumHouses} }

InitHouse ==
    /\ NoServer
    /\ NoScript
    /\ NoRerun
    /\ \E houseCusps \in ZodiacalCusps \cup ClockwiseCusps,
          longitude \in Grid \cup {k * LonStep : k \in 0..((FullCircle - 1) \div LonStep)} :
          arg = Some([longitude |-> longitude, houseCusps |-> houseCusps])
    /\ ret = Null

\* getHousePlacement at the longitude, and at each of the twelve cusps
ApplyHouse ==
    /\ ret = Null
    /\ ret' = Some([house |-> getHousePlacement(arg[1].longitude,
                                                arg[1].houseCusps),
                    ofCusp |-> [i \in 1..NumHouses |->
                                  getHousePlacement(arg[1].houseCusps[i],
                                                    arg[1].houseCusps)]])
    /\ UNCHANGED <<geocodingApiKey, ephe, store, jobPc, jobConn, jobReleases,
                   events, idx, log, call, req, swephOpen, arg,
                   chatVars, scriptVars, produced>>

SpecHouse == InitHouse /\ [][ApplyHouse]_vars

-----------------------------------------------------------------------------
(* The aspect detector applied on its own to a pair of longitudes, with    *)
(* the catalog of the server and the nine-kind catalog of the earlier      *)
(* server (src/unnamed/part_005).                                          *)

aspectKeys == <<"conjunction", "opposition", "trine", "square", "sextile",
                "quincunx", "quintile", "semisextile", "semisquare">>
aspectsWideQuintile ==
    aspectTypes @@
    [quintile    |-> [angle |-> 72, orb |-> 6, color |-> "#862e9c"],
     semisextile |-> [angle |-> 30, orb |-> 2, color |-> "#495057"],
     semisquare  |-> [angle |-> 45, orb |-> 2, color |-> "#c92a2a"]]
\* const aspects = { ... } of the earlier server
aspects ==
    aspectTypes @@
    [quintile    |-> [angle |-> 72, orb |-> 2, color |-> "#862e9c"],
     semisextile |-> [angle |-> 30, orb |-> 2, color |-> "#495057"],
     semisquare  |-> [angle |-> 45, orb |-> 2, color |-> "#c92a2a"]]

\* for (const aspectName in aspects) { if (Math.abs(angle - aspect.angle)
\* <= aspect.orb) { ...; break; } } over the keys in the order names, from
\* the k-th on: the kind and orb pushed, Null when none is
RECURSIVE FirstKind(_, _, _, _)
FirstKind(names, types, angle, k) ==
    IF k > Len(names) THEN Null
    ELSE IF Abs(angle - types[names[k]].angle) <= types[names[k]].orb
         THEN Some([aspect |-> names[k],
                    orb |-> Abs(angle - types[names[k]].angle)])
         ELSE FirstKind(names, types, angle, k + 1)

InitAspect ==
    /\ NoServer
    /\ NoScript
    /\ NoRerun
    /\ \E lon1 \in Longitudes,
          lon2 \in Grid \cup {k * LonStep : k \in 0..((FullCircle - 1) \div LonStep)} :
          arg = Some([lon1 |-> lon1, lon2 |-> lon2])
    /\ ret = Null

\* the detector on (lon1, lon2) and on (lon2, lon1), and the kind found in
\* each catalog read in its order and read backwards
ApplyAspect ==
    /\ ret = Null
    /\ LET lon1 == arg[1].lon1
           lon2 == arg[1].lon2
           angle == Separation(lon1, lon2)
       IN  ret' = Some(
             [forward |-> AspectOf("first", "second", angle, 1),
              backward |-> AspectOf("first", "second",
                                    Separation(lon2, lon1), 1),
              six |-> FirstKind(aspectNames, aspectTypes, angle, 1),
              sixBackwards |-> FirstKind(Reverse(aspectNames), aspectTypes,
                                         angle, 1),
              nine |-> FirstKind(aspectKeys, aspects, angle, 1),
              nineBackwards |-> FirstKind(Reverse(aspectKeys), aspects,
                                          angle, 1)])
    /\ UNCHANGED <<geocodingApiKey, ephe, store, jobPc, jobConn, jobReleases,
                   events, idx, log, call, req, swephOpen, arg,
                   chatVars, scriptVars, produced>>

SpecAspect == InitAspect /\ [][ApplyAspect]_vars

-----------------------------------------------------------------------------
(* POST /api/chat of one user, from the point where the caller is          *)
(* authenticated and the message is validated: the daily limit kept in     *)
(* user_query_stats, and the pool connection of the request.  The          *)
(* requests carry no progressed or transit chart and saveToHistory false,  *)
(* so that the handler awaits the pool, the SELECT, the AI service and     *)
(* the statistics update.                                                  *)

\* a request: seen is userStats (the rows of the SELECT), conn the pool
\* connection ("none" | "held" | "released"), releases the calls of
\* conn.release(), status the HTTP status answered (0: none yet)
NoChatRequest ==
    [pc |-> "idle", badChart |-> FALSE, seen |-> Null, sentOn |-> 0,
     conn |-> "none", releases |-> 0, status |-> 0]

\* if (today === lastQueryDay && userStats[0].queries_today >= 5)
LimitReached(userStats, now) ==
    /\ userStats # Null
    /\ userStats[1].last_query_day = now
    /\ userStats[1].queries_today >= QueryLimit

\* step 8: UPDATE ... SET queries_today = queries_today + 1 when the row
\* read at step 3 is of today, else INSERT ... VALUES (?, 1, NOW()) ON
\* DUPLICATE KEY UPDATE queries_today = 1
\* (lastQueryDay and today are taken before the statement is sent, NOW()
\* when it runs)
CountQuery(row, userStats, jsToday, dbNow) ==
    IF userStats # Null /\ userStats[1].last_query_day = jsToday
    THEN IF row = Null THEN Null
         ELSE Some([queries_today |-> row[1].queries_today + 1,
                    last_query_day |-> dbNow])
    ELSE Some([queries_today |-> 1, last_query_day |-> dbNow])

\* the response is sent and the finally block runs; early tells that the
\* handler called conn.release() itself before returning
ChatEnds(c, status, early) ==
    [c EXCEPT !.pc = "responded",
              !.status = status,
              !.conn = IF c.conn = "none" THEN "none" ELSE "released",
              !.releases = (IF early THEN 1 ELSE 0)
                           + (IF c.conn = "none" THEN 0 ELSE 1)]

\* the request arrives; conn = await pool.getConnection() is under way
ChatArrive(r) ==
    /\ chats[r].pc = "idle"
    /\ \E badChart \in BOOLEAN :
          chats' = [chats EXCEPT ![r] = [NoChatRequest EXCEPT
                                           !.pc = "connect",
                                           !.badChart = badChart]]
    /\ UNCHANGED <<geocodingApiKey, ephe, store, jobPc, jobConn, jobReleases,
                   events, idx, log, call, req, swephOpen, arg, ret,
                   stats, today, served, scriptVars, produced>>

\* the connection is had and the SELECT on user_query_stats is sent
ChatConnected(r) ==
    /\ chats[r].pc = "connect"
    /\ \E ok \in BOOLEAN :
          chats' = [chats EXCEPT ![r] =
                      IF ok THEN [@ EXCEPT !.pc = "check", !.conn = "held"]
                      ELSE ChatEnds(@, 500, FALSE)]
    /\ UNCHANGED <<geocodingApiKey, ephe, store, jobPc, jobConn, jobReleases,
                   events, idx, log, call, req, swephOpen, arg, ret,
                   stats, today, served, scriptVars, produced>>

\* the SELECT settled: the limit check, the parse of chartData, and the
\* request to the AI service is sent
ChatChecked(r) ==
    /\ chats[r].pc = "check"
    /\ \E ok \in BOOLEAN :
          chats' = [chats EXCEPT ![r] =
                      IF ~ok THEN ChatEnds(@, 500, FALSE)
                      ELSE IF LimitReached(stats, today)
                      THEN ChatEnds([@ EXCEPT !.seen = stats], 429, TRUE)
                      ELSE IF @.badChart
                      THEN ChatEnds([@ EXCEPT !.seen = stats], 400, TRUE)
                      ELSE [@ EXCEPT !.pc = "gemini", !.seen = stats]]
    /\ UNCHANGED <<geocodingApiKey, ephe, store, jobPc, jobConn, jobReleases,
                   events, idx, log, call, req, swephOpen, arg, ret,
                   stats, today, served, scriptVars, produced>>

\* the AI service answered with a text or not; with a text the update of
\* user_query_stats is sent
ChatAnswered(r) ==
    /\ chats[r].pc = "gemini"
    /\ \E text \in BOOLEAN :
          chats' = [chats EXCEPT ![r] =
                      IF text THEN [@ EXCEPT !.pc = "update",
                                             !.sentOn = today]
                      ELSE ChatEnds(@, 500, FALSE)]
    /\ UNCHANGED <<geocodingApiKey, ephe, store, jobPc, jobConn, jobReleases,
                   events, idx, log, call, req, swephOpen, arg, ret,
                   stats, today, served, scriptVars, produced>>

\* the update ran and settled: res.json({ response: text, ... }), or it
\* failed and the catch block answers 500
ChatCounted(r) ==
    /\ chats[r].pc = "update"
    /\ \E ok \in BOOLEAN :
          /\ chats' = [chats EXCEPT ![r] =
                         ChatEnds(@, IF ok THEN 200 ELSE 500, FALSE)]
          /\ stats' = IF ok THEN CountQuery(stats, chats[r].seen,
                                            chats[r].sentOn, today)
                      ELSE stats
          /\ served' = IF ok THEN [served EXCEPT ![today] = @ + 1]
                       ELSE served
    /\ UNCHANGED <<geocodingApiKey, ephe, store, jobPc, jobConn, jobReleases,
                   events, idx, log, call, req, swephOpen, arg, ret,
                   today, scriptVars, produced>>

\* the request is over; another may come in its place
ChatSettled(r) ==
    /\ chats[r].pc = "responded"
    /\ chats' = [chats EXCEPT ![r] = NoChatRequest]
    /\ UNCHANGED <<geocodingApiKey, ephe, store, jobPc, jobConn, jobReleases,
                   events, idx, log, call, req, swephOpen, arg, ret,
                   stats, today, served, scriptVars, produced>>

\* midnight
DayPasses ==
    /\ today < MaxDay
    /\ today' = today + 1
    /\ UNCHANGED <<geocodingApiKey, ephe, store, jobPc, jobConn, jobReleases,
                   events, idx, log, call, req, swephOpen, arg, ret,
                   stats, chats, served, scriptVars, produced>>

InitChat ==
    /\ geocodingApiKey = TRUE
    /\ ephe = OldSky
    /\ NoJob
    /\ call = [c \in Callers |-> NoCall]
    /\ swephOpen = FALSE
    /\ req = [pc |-> "idle"]
    /\ NoStandalone
    /\ stats = Null
    /\ chats = [r \in 1..MaxChats |-> NoChatRequest]
    /\ today = 0
    /\ served = [d \in 0..MaxDay |-> 0]

NextChat ==
    \/ \E r \in 1..MaxChats :
          \/ ChatArrive(r)
          \/ ChatConnected(r)
          \/ ChatChecked(r)
          \/ ChatAnswered(r)
          \/ ChatCounted(r)
          \/ ChatSettled(r)
    \/ DayPasses

SpecChat == InitChat /\ [][NextChat]_vars

-----------------------------------------------------------------------------
(* scripts/007_normalize_legacy_chat_conversations.js, run alone on the    *)
(* tables chat_messages and conversations.  A message row is its user_id,  *)
(* session_key and conversation_id (its id is its place in the table, and  *)
(* rows were created in the order of their ids); a conversation is its     *)
(* user_id.  Titles and times are left out.                                *)

MaxMessages == 3

\* the columns are of collation utf8mb4_unicode_ci: = and GROUP BY take no
\* account of letter case and of trailing spaces
Collated(key) ==
    IF key = "S1" THEN "s1" ELSE IF key = " " THEN "" ELSE key
\* session_key IS NULL OR TRIM(session_key) = ''
Blank(sessionKey) == sessionKey = Null \/ sessionKey[1] \in {"", " "}

\* rows without a conversation, and a row of conversation 1
MessageSamples ==
    { [user_id |-> u, session_key |-> k, conversation_id |-> Null] :
        u \in {"user-1", "user-2"},
        k \in {Null, Some(" "), Some("s1"), Some("S1")} }
    \cup { [user_id |-> "user-1", session_key |-> Some("s1"),
            conversation_id |-> Some(1)] }

GroupRowsOfAnyUser(msgs, group) ==
    { id \in DOMAIN msgs :
        /\ msgs[id].conversation_id = Null
        /\ msgs[id].session_key # Null
        /\ Collated(msgs[id].session_key[1]) = Collated(group.session_key) }
\* WHERE user_id = ? AND session_key = ? AND conversation_id IS NULL
GroupRows(msgs, group) ==
    { id \in DOMAIN msgs :
        /\ msgs[id].conversation_id = Null
        /\ msgs[id].user_id = group.user_id
        /\ msgs[id].session_key # Null
        /\ Collated(msgs[id].session_key[1]) = Collated(group.session_key) }

\* the catch block: rollback (of a run that is not dry) and exit code 1
ScriptFailed ==
    /\ script' = [script EXCEPT !.pc = "failed"]
    /\ IF script.before = Null
       THEN UNCHANGED <<messages, conversations>>
       ELSE /\ messages' = script.before[1].messages
            /\ conversations' = script.before[1].conversations

\* from getConnection to the result of the SELECT of pass 1: the count of
\* pending rows, BEGIN, and the groups in the order of their first row
ScriptStart ==
    /\ script # Null /\ script.pc = "start"
    /\ \E ok \in BOOLEAN :
          LET pending == { id \in DOMAIN messages :
                             messages[id].conversation_id = Null }
              keyed == { id \in pending : ~Blank(messages[id].session_key) }
              firsts == { id \in keyed :
                            \A j \in keyed :
                                ( messages[j].user_id = messages[id].user_id
                                  /\ Collated(messages[j].session_key[1])
                                     = Collated(messages[id].session_key[1]) )
                                => id <= j }
              ordered == Ascending(firsts)
          IN  IF ~ok THEN ScriptFailed
              ELSE /\ UNCHANGED <<messages, conversations>>
                   /\ IF pending = {}
                      THEN script' = [script EXCEPT !.pc = "done"]
                      ELSE script' =
                             [script EXCEPT
                                !.pc = "groups",
                                !.i = 1,
                                !.before =
                                    IF script.dryRun THEN Null
                                    ELSE Some([messages |-> messages,
                                               conversations |-> conversations]),
                                !.groups =
                                    [k \in 1..Len(ordered) |->
                                       [user_id |-> messages[ordered[k]].user_id,
                                        session_key |->
                                          messages[ordered[k]].session_key[1]]]]
    /\ UNCHANGED <<geocodingApiKey, ephe, store, jobPc, jobConn, jobReleases,
                   events, idx, log, call, req, swephOpen, arg, ret,
                   chatVars, produced>>

\* one turn of the loop of pass 1: INSERT INTO conversations, then UPDATE
\* chat_messages SET conversation_id = insertId for the rows of the group
ScriptGroup ==
    /\ script # Null /\ script.pc = "groups"
    /\ script.i <= Len(script.groups)
    /\ \E ok \in BOOLEAN :
          LET group == script.groups[script.i]
              conversationId == Len(conversations) + 1
              rows == GroupRows(messages, group)
          IN  IF ~ok THEN ScriptFailed
              ELSE /\ script' = [script EXCEPT !.i = @ + 1]
                   /\ IF script.dryRun
                      THEN UNCHANGED <<messages, conversations>>
                      ELSE /\ conversations' =
                                Append(conversations,
                                       [user_id |-> group.user_id])
                           /\ messages' =
                                [id \in DOMAIN messages |->
                                   IF id \in rows
                                   THEN [messages[id] EXCEPT
                                           !.conversation_id =
                                               Some(conversationId)]
                                   ELSE messages[id]]
    /\ UNCHANGED <<geocodingApiKey, ephe, store, jobPc, jobConn, jobReleases,
                   events, idx, log, call, req, swephOpen, arg, ret,
                   chatVars, produced>>

\* pass 1 is over; the SELECT of pass 2: the pending rows without a key,
\* in the order of their creation
ScriptOrphans ==
    /\ script # Null /\ script.pc = "groups"
    /\ script.i > Len(script.groups)
    /\ \E ok \in BOOLEAN :
          IF ~ok THEN ScriptFailed
          ELSE /\ UNCHANGED <<messages, conversations>>
               /\ script' =
                    [script EXCEPT
                       !.pc = "orphans",
                       !.i = 1,
                       !.orphans =
                           Ascending({ id \in DOMAIN messages :
                               /\ messages[id].conversation_id = Null
                               /\ Blank(messages[id].session_key) })]
    /\ UNCHANGED <<geocodingApiKey, ephe, store, jobPc, jobConn, jobReleases,
                   events, idx, log, call, req, swephOpen, arg, ret,
                   chatVars, produced>>

\* one turn of the loop of pass 2: INSERT INTO conversations, then UPDATE
\* chat_messages ... WHERE message_id = ? AND conversation_id IS NULL
ScriptOrphan ==
    /\ script # Null /\ script.pc = "orphans"
    /\ script.i <= Len(script.orphans)
    /\ \E ok \in BOOLEAN :
          LET row == script.orphans[script.i]
              conversationId == Len(conversations) + 1
          IN  IF ~ok THEN ScriptFailed
              ELSE /\ script' = [script EXCEPT !.i = @ + 1]
                   /\ IF script.dryRun
                      THEN UNCHANGED <<messages, conversations>>
                      ELSE /\ conversations' =
                                Append(conversations,
                                       [user_id |-> messages[row].user_id])
                           /\ messages' =
                                IF messages[row].conversation_id = Null
                                THEN [messages EXCEPT
                                        ![row].conversation_id =
                                            Some(conversationId)]
                                ELSE messages
    /\ UNCHANGED <<geocodingApiKey, ephe, store, jobPc, jobConn, jobReleases,
                   events, idx, log, call, req, swephOpen, arg, ret,
                   chatVars, produced>>

\* pass 2 is over: the dry run returns, the other run commits
ScriptCommit ==
    /\ script # Null /\ script.pc = "orphans"
    /\ script.i > Len(script.orphans)
    /\ \E ok \in BOOLEAN :
          IF ~ok /\ ~script.dryRun THEN ScriptFailed
          ELSE /\ UNCHANGED <<messages, conversations>>
               /\ script' = [script EXCEPT !.pc = "done"]
    /\ UNCHANGED <<geocodingApiKey, ephe, store, jobPc, jobConn, jobReleases,
                   events, idx, log, call, req, swephOpen, arg, ret,
                   chatVars, produced>>

InitScript ==
    /\ NoServer
    /\ NoRerun
    /\ arg = Null /\ ret = Null
    /\ \E n \in 1..MaxMessages : messages \in [1..n -> MessageSamples]
    /\ conversations = <<[user_id |-> "user-1"]>>
    /\ \E dryRun \in BOOLEAN :
          script = [pc |-> "start", dryRun |-> dryRun, groups |-> <<>>,
                    orphans |-> <<>>, i |-> 1, before |-> Null]

NextScript ==
    \/ ScriptStart
    \/ ScriptGroup
    \/ ScriptOrphans
    \/ ScriptOrphan
    \/ ScriptCommit

SpecScript == InitScript /\ [][NextScript]_vars

-----------------------------------------------------------------------------
(* Properties.                                                             *)

\* the chart a settled request got, when it got one
Answered == req.pc = "responded" /\ req.json # Null
Chart == req.json[1]

\* C1: a chart returned by calculateChart carries in meta.inputs exactly
\* the year, month, day, time and location the caller passed, whatever
\* includeHouses and houseSystem were, and never the resolved place name.
InputsRoundTrip == Answered => Chart.meta.inputs = req.body

\* a chart without houses whose place resolved to another name
InputsRoundTripWitness ==
    /\ Answered
    /\ req.route = "transit"
    /\ Chart.meta.location # req.body.location

EventIds(q) == [k \in 1..Len(q) |-> q[k].event_id]

\* C2: the job's loop takes the records of its snapshot one by one in
\* snapshot order, each once, and a record that fails or is skipped does
\* not keep the later ones from being taken: when the job ends after a
\* non-empty snapshot, every record of it has been taken.
FailureIsolation ==
    /\ Len(log) <= Len(events)
    /\ EventIds(log) = EventIds(SubSeq(events, 1, Len(log)))
    /\ jobPc \in {"loop", "calc", "update"} => idx = Len(log) + 1
    /\ jobPc = "done" => Len(log) = Len(events)

\* a failed or skipped first record followed by a recalculated second one
FailureIsolationWitness ==
    /\ jobPc = "done"
    /\ Len(log) >= 2
    /\ log[1].outcome \in {"failed", "skipped"}
    /\ log[2].outcome = "recalculated"

\* the stored chart of a snapshot entry, Null when its text does not parse
StoredChart(event) ==
    IF JsonParse(event.event_data).threw THEN Null
    ELSE Some(JsonParse(event.event_data).value)
HasInputs(data) == Has(data, "meta") /\ Has(data.meta, "inputs")
\* no meta.inputs, but meta.date and meta.location, and the date parses
IsLegacy(data) ==
    /\ Has(data, "meta") /\ ~Has(data.meta, "inputs")
    /\ Has(data.meta, "date") /\ Has(data.meta, "location")
    /\ FromSQL(StripUtc(data.meta.date)).isValid
\* the UTC calendar fields y, mo, d and the clock time t are those of the
\* stored date
FieldsOfDate(y, mo, d, t, date) ==
    /\ Len(t) = 8
    /\ Pad4(y) \o <<"-">> \o Pad2(mo) \o <<"-">> \o Pad2(d) \o <<" ">> \o t
       \o UtcSuffix = date

\* C3: the job recomputes a stored chart that has meta.inputs from exactly
\* those inputs; one that has none but has meta.date and meta.location,
\* with a date that parses, it recomputes from the UTC calendar fields of
\* the date and the stored place name, and the chart it then writes has
\* meta.inputs.location equal to the stored meta.location.
InputRecovery ==
    /\ \A k \in 1..Len(log) :
          LET data == StoredChart(events[k])
          IN  (data # Null /\ (HasInputs(data[1]) \/ IsLegacy(data[1])))
              => log[k].outcome # "skipped"
    /\ jobPc \in {"calc", "update"} =>
          LET data == StoredChart(events[idx])[1]
              a == call["job"].args[1]
          IN  /\ HasInputs(data) =>
                    [year |-> a.year, month |-> a.month, day |-> a.day,
                     time |-> a.time, location |-> a.location]
                    = data.meta.inputs
              /\ IsLegacy(data) =>
                    /\ FieldsOfDate(a.year, a.month, a.day, a.time,
                                    data.meta.date)
                    /\ a.location = data.meta.location
                    /\ jobPc = "update" =>
                          call["job"].chartData[1].meta.inputs.location
                          = data.meta.location

\* what a step of the job may do to the table
FrameStep ==
    /\ DOMAIN store' = DOMAIN store
    /\ \A id \in DOMAIN store :
          /\ store'[id].user_id = store[id].user_id
          /\ store'[id].label = store[id].label
          /\ store'[id].event_data # store[id].event_data =>
                /\ jobPc = "update"
                /\ id = events[idx].event_id
                /\ store'[id].event_data
                   = JsonStringify(call["job"].chartData[1])

Folded(lonA, lonB) ==
    LET d == IF lonA >= lonB THEN lonA - lonB ELSE lonB - lonA
    IN  IF FullCircle - d < d THEN FullCircle - d ELSE d
\* the catalog kinds (by index) within whose orb a separation lies
KindsWithin(sep) ==
    { k \in 1..Len(aspectNames) :
        LET t == aspectTypes[aspectNames[k]]
        IN  sep - t.angle <= t.orb /\ t.angle - sep <= t.orb }
\* the entries of the aspect list for the unordered pair {a, b}
EntriesOf(chart, a, b) ==
    { i \in 1..Len(chart.aspects) :
        {chart.aspects[i].planet1, chart.aspects[i].planet2} = {a, b} }

\* C5: for every two bodies present in positions the chart lists an aspect
\* exactly when the folded separation lies within the orb of some kind of
\* the catalog; the kind listed is the first such kind in catalog order
\* and the orb listed is the distance of the separation from its angle.
AspectRule ==
    Answered =>
    \A a, b \in DOMAIN Chart.positions :
        a # b =>
        LET sep == Folded(Chart.positions[a].longitude,
                          Chart.positions[b].longitude)
            kinds == KindsWithin(sep)
            entries == EntriesOf(Chart, a, b)
        IN  /\ (kinds = {}) = (entries = {})
            /\ \A i \in entries :
                  LET first == CHOOSE k \in kinds : \A m \in kinds : k <= m
                      angle == aspectTypes[aspectNames[first]].angle
                  IN  /\ Chart.aspects[i].aspect = aspectNames[first]
                      /\ Chart.aspects[i].orb
                         = (IF sep >= angle THEN sep - angle ELSE angle - sep)

\* bodies at 10 and 98 listed as a square of orb 2, bodies at 10 and 280
\* (270 apart, folded to 90) as a square, and a pair with no aspect
AspectRuleWitness ==
    /\ Answered
    /\ \E i \in 1..Len(Chart.aspects) :
          /\ Chart.aspects[i].aspect = "square" /\ Chart.aspects[i].orb = 2
          /\ { Chart.positions[Chart.aspects[i].planet1].longitude,
               Chart.positions[Chart.aspects[i].planet2].longitude }
             = {10, 98}
    /\ \E a, b \in DOMAIN Chart.positions :
          /\ a # b /\ EntriesOf(Chart, a, b) = {}

\* C6: the aspect list of a returned chart has no entry for a body with
\* itself and no two entries for the same unordered pair of bodies,
\* whichever bodies failed.
AspectPairsOnce ==
    Answered =>
    \A i, j \in 1..Len(Chart.aspects) :
        /\ Chart.aspects[i].planet1 # Chart.aspects[i].planet2
        /\ i # j => {Chart.aspects[i].planet1, Chart.aspects[i].planet2}
                    # {Chart.aspects[j].planet1, Chart.aspects[j].planet2}

\* a chart that lists two aspects or more
AspectPairsOnceWitness == Answered /\ Len(Chart.aspects) >= 2

\* the twelve arcs of the circle that the cusps cut, in the order of the
\* zodiac: every cusp is followed by a greater one, but for the single
\* house that crosses 0 Aries
NextCusp(i) == (i % NumHouses) + 1
IsZodiacal(houseCusps) ==
    /\ Len(houseCusps) = NumHouses
    /\ \A i \in 1..NumHouses : houseCusps[i] # houseCusps[NextCusp(i)]
    /\ Cardinality({i \in 1..NumHouses :
                      houseCusps[i] > houseCusps[NextCusp(i)]}) = 1
\* longitude lies on the arc that runs from cusp1 forward to cusp2
OnArc(longitude, cusp1, cusp2) ==
    ((longitude - cusp1) % FullCircle) < ((cusp2 - cusp1) % FullCircle)
HousesHolding(longitude, houseCusps) ==
    {i \in 1..NumHouses :
       OnArc(longitude, houseCusps[i], houseCusps[NextCusp(i)])}
PlacedOnce(longitude, houseCusps, result) ==
    /\ result.house # Null
    /\ result.house[1] \in 1..NumHouses
    /\ HousesHolding(longitude, houseCusps) = {result.house[1]}
    /\ \A i \in 1..NumHouses : result.ofCusp[i] = Some(i)

\* C7 as the specification words it: for every twelve cusps and every
\* longitude in [0, 360), getHousePlacement returns exactly one house of
\* 1..12, no other house holds the longitude, and cusp i is placed in
\* house i.
HousePlacementTotal ==
    ret # Null => PlacedOnce(arg[1].longitude, arg[1].houseCusps, ret[1])

\* C7, amended: when the twelve cusps follow the order of the zodiac
\* (each cusp greater than the one before, except at the one house that
\* crosses 0 Aries), getHousePlacement returns exactly one house of 1..12
\* for every longitude in [0, 360), no other house holds the longitude,
\* and cusp i is placed in house i.
HousePlacementZodiacal ==
    (ret # Null /\ IsZodiacal(arg[1].houseCusps))
        => PlacedOnce(arg[1].longitude, arg[1].houseCusps, ret[1])

\* a longitude past 0 Aries placed in the house that crosses 0 Aries
HousePlacementZodiacalWitness ==
    /\ ret # Null
    /\ IsZodiacal(arg[1].houseCusps)
    /\ ret[1].house # Null
    /\ LET h == ret[1].house[1]
           c == arg[1].houseCusps
       IN  /\ c[h] > c[NextCusp(h)]
           /\ arg[1].longitude < c[NextCusp(h)]

\* the sign and degree that the zodiac of twelve 30-degree signs gives a
\* longitude of [0, 360)
OnZodiac(longitude, sign, degrees) ==
    \E k \in 1..Len(signs) :
        /\ SignWidth * (k - 1) <= longitude
        /\ longitude < SignWidth * k
        /\ sign = signs[k]
        /\ degrees = longitude - SignWidth * (k - 1)

SignInvariant ==
    Answered =>
        \A n \in DOMAIN Chart.positions :
            LET p == Chart.positions[n]
            IN  /\ p.sign \in {signs[k] : k \in 1..Len(signs)}
                /\ OnZodiac(p.longitude, p.sign, p.sign_degrees)
                /\ p.sign_degrees >= 0
                /\ p.sign_degrees < SignWidth
                /\ p.sign_degrees = p.longitude % SignWidth

\* a body at 280 degrees is at 10 degrees of Capricorn
SignInvariantWitness ==
    /\ Answered
    /\ \E n \in DOMAIN Chart.positions :
          /\ Chart.positions[n].longitude = 280
          /\ Chart.positions[n].sign = "Capricorn"
          /\ Chart.positions[n].sign_degrees = 10

FailedBodies == {n \in PlanetSet : ephe.bodies[n].error}

\* C10: whichever bodies swe_calc_ut fails for, calculateChart still
\* returns a chart, whose positions hold exactly the other tracked bodies;
\* a call that throws does so for its resolvers or its houses, never for a
\* body.
BodyFailureNonFatal ==
    /\ Answered => DOMAIN Chart.positions = PlanetSet \ FailedBodies
    /\ call["api"].pc = "thrown" =>
          \/ call["api"].error \in {ErrApiKey, ErrGeocode, ErrTimezone,
                                    ErrInvalidTime, ErrRequest}
          \/ /\ call["api"].error = ErrHouses
             /\ call["api"].args[1].includeHouses
             /\ ephe.houses[call["api"].args[1].houseSystem].error
    /\ (call["api"].pc = "returned" /\ call["api"].chartData # Null) =>
          DOMAIN call["api"].chartData[1].positions = PlanetSet \ FailedBodies

\* a chart answered although swe_calc_ut failed for some body, with the
\* other bodies in it
BodyFailureNonFatalWitness ==
    /\ Answered
    /\ FailedBodies # {}
    /\ DOMAIN Chart.positions # {}
    /\ DOMAIN Chart.positions = PlanetSet \ FailedBodies

\* a calculateChart call of the API that has returned or thrown
Settled(c) == call[c].pc \in {"returned", "thrown"}
\* both resolvers answered the call and its date and time are a real instant
Resolved(c) ==
    /\ call[c].tzData # Null
    /\ call[c].tzData[1].status = "OK"
    /\ ValidDate(call[c].args[1])
UtcTimeOf(c) ==
    ToUTC(FromISO(IsoString(call[c].args[1].year, call[c].args[1].month,
                            call[c].args[1].day, call[c].args[1].time)),
          ZoneOffset(call[c].tzData[1].timeZoneId))

\* C11: when houses are asked for and swe_houses fails, calculateChart
\* throws "House calculation failed" and returns no chart; when they are
\* asked for and it succeeds the chart has its houses; when they are not
\* asked for, the chart is the same whatever swe_houses would answer.
HouseFailureFatal ==
    /\ (Settled("api") /\ Resolved("api")) =>
          LET c == call["api"]
              a == c.args[1]
              failed == ephe.houses[a.houseSystem].error
          IN  /\ (a.includeHouses /\ failed) =>
                    /\ c.pc = "thrown"
                    /\ c.error = ErrHouses
                    /\ c.chartData = Null
              /\ (a.includeHouses /\ ~failed) =>
                    /\ c.pc = "returned"
                    /\ c.chartData[1].houses # Null
              /\ ~a.includeHouses =>
                    /\ c.pc = "returned"
                    /\ \A h \in HouseAnswers :
                          c.chartData =
                          Ephemeris(a, c.geo[1], UtcTimeOf("api"),
                                    [ephe EXCEPT !.houses = h]).chartData
    /\ (req.pc = "responded" /\ req.error = ErrHouses) =>
          /\ req.json = Null
          /\ req.status = 500
          /\ req.route = "ephemeris"

\* a request for a chart with houses answered with the house failure
HouseFailureFatalWitness ==
    /\ req.pc = "responded"
    /\ req.route = "ephemeris"
    /\ req.error = ErrHouses
    /\ req.json = Null
    /\ ephe.houses[req.houseSystem].error

\* C12: a chart computed with includeHouses = false, as the transit chart
\* of the chat is, has houses null and no position with a house field.
HousesAbsent ==
    /\ (Settled("api") /\ call["api"].pc = "returned"
        /\ ~call["api"].args[1].includeHouses) =>
          LET chart == call["api"].chartData[1]
          IN  /\ chart.houses = Null
              /\ \A n \in DOMAIN chart.positions :
                    ~Has(chart.positions[n], "house")
    /\ (Answered /\ req.route = "transit") =>
          /\ Chart.houses = Null
          /\ \A n \in DOMAIN Chart.positions :
                ~Has(Chart.positions[n], "house")

\* a transit chart with every body in it, computed while swe_houses fails
\* for the house system of the request
HousesAbsentWitness ==
    /\ Answered
    /\ req.route = "transit"
    /\ ephe.houses[req.houseSystem].error
    /\ DOMAIN Chart.positions = PlanetSet

\* the first house, in house order, whose arc holds the longitude
FirstHolding(longitude, houseCusps) ==
    IF HousesHolding(longitude, houseCusps) = {} THEN Null
    ELSE Some(CHOOSE i \in HousesHolding(longitude, houseCusps) :
                \A j \in HousesHolding(longitude, houseCusps) : i <= j)

\* C13: in every returned chart that has houses, houses.cusps has exactly
\* 12 entries and every position's house is the house that the placement
\* rule gives the position's longitude on those cusps.
CuspsAndPlacement ==
    (Answered /\ Chart.houses # Null) =>
        /\ Len(Chart.houses[1].cusps) = NumHouses
        /\ \A n \in DOMAIN Chart.positions :
              /\ Has(Chart.positions[n], "house")
              /\ Chart.positions[n].house
                 = FirstHolding(Chart.positions[n].longitude,
                                Chart.houses[1].cusps)
              /\ Chart.positions[n].house
                 = getHousePlacement(Chart.positions[n].longitude,
                                     Chart.houses[1].cusps)

\* a chart on the first 12 of the 36 Gauquelin sectors with a body placed
\* in one of them
CuspsAndPlacementWitness ==
    /\ Answered
    /\ Chart.houses # Null
    /\ Chart.houses[1].system = "G"
    /\ \E n \in DOMAIN Chart.positions : Chart.positions[n].house # Null

\* C14: a place that cannot be geocoded makes calculateChart throw "Could
\* not geocode", a time zone that cannot be derived makes it throw "Could
\* not determine the timezone"; either way no chart is returned, and the
\* call makes no call of the ephemeris library before both resolvers have
\* answered.
ResolverFailureFatal ==
    /\ \A c \in Callers :
          LET k == call[c]
          IN  /\ (k.pc = "thrown" /\ k.error \in {ErrGeocode, ErrTimezone}) =>
                    (k.chartData = Null /\ k.sweph = "none")
              /\ (k.pc \notin {"idle", "geocode"}
                  /\ k.args[1].location \notin DOMAIN Places) =>
                    /\ k.pc = "thrown"
                    /\ k.error \in {ErrApiKey, ErrGeocode, ErrRequest}
                    /\ k.geo = Null
              /\ (k.pc = "thrown" /\ k.error = ErrGeocode) => k.geo = Null
              /\ (k.tzData # Null /\ k.tzData[1].status # "OK") =>
                    (k.pc = "thrown" /\ k.error = ErrTimezone)
              /\ k.pc \in {"geocode", "timezone"} => k.sweph = "none"
              /\ k.sweph # "none" =>
                    /\ k.geo # Null
                    /\ k.tzData # Null
                    /\ k.tzData[1].status = "OK"
    /\ (req.pc = "responded" /\ req.error \in {ErrGeocode, ErrTimezone}) =>
          (req.json = Null /\ req.status = 500)

\* a call whose place was geocoded and whose time zone was refused: thrown,
\* with no library call made
ResolverFailureFatalWitness ==
    /\ call["api"].pc = "thrown"
    /\ call["api"].error = ErrTimezone
    /\ call["api"].geo # Null
    /\ call["api"].sweph = "none"

JobNeverRejects ==
    /\ jobPc \in {"start", "select", "loop", "calc", "update", "finally",
                  "done"}
    /\ jobPc = "calc" =>
          call["job"].pc \in {"geocode", "timezone", "returned", "thrown"}
    /\ jobPc = "update" =>
          (call["job"].pc = "returned" /\ call["job"].chartData # Null)
    /\ jobPc = "done" =>
          /\ jobConn \in {"none", "released"}
          /\ call["job"] = NoCall

\* the job done after its SELECT failed on a table that holds rows
JobNeverRejectsWitness ==
    /\ jobPc = "done"
    /\ Len(store) > 0
    /\ events = <<>>
    /\ jobConn = "released"
    /\ jobReleases = 1

\* the arguments the job calls calculateChart with for the snapshot entry
JobArgsOf(event) ==
    LET inputs == RecoverInputs(JsonParse(event.event_data).value)[1]
    IN  Args(inputs.year, inputs.month, inputs.day, inputs.time,
             inputs.location, TRUE, "P")

\* C17: the job works on one record at a time.  While a chart calculation
\* of the job is under way the loop waits for it at the record it is for,
\* every earlier record of the snapshot has been recalculated, skipped or
\* has failed, and no later record has been started; the loop moves to the
\* next record only when no calculation of the job is under way.
JobSequential ==
    /\ call["job"].pc # "idle" =>
          /\ jobPc \in {"calc", "update"}
          /\ idx <= Len(events)
          /\ call["job"].args = Some(JobArgsOf(events[idx]))
    /\ jobPc = "update" => call["job"].pc = "returned"
    /\ jobPc \in {"loop", "calc", "update"} =>
          /\ Len(log) = idx - 1
          /\ \A k \in 1..Len(log) : log[k].event_id = events[k].event_id
    /\ jobPc = "loop" => call["job"] = NoCall

\* the calculation for the second record under way, the first one settled
JobSequentialWitness ==
    /\ jobPc = "calc"
    /\ idx = 2
    /\ call["job"].pc = "timezone"
    /\ Len(log) = 1
    /\ log[1].outcome = "recalculated"

\* C18: every calculateChart call that has called swe_set_ephe_path has
\* called swe_close by the time it returns or throws, so that no settled
\* call leaves the library open.
HandleClosed ==
    /\ \A c \in Callers :
          (Settled(c) /\ call[c].sweph # "none") => call[c].sweph = "closed"
    /\ ~swephOpen

\* what calculateChart gives for the arguments of the call c on its own:
\* the chart or the error of the ephemeris step for the place of the
\* arguments and the UTC time of their date and time in its answered zone
Alone(c) ==
    Ephemeris(call[c].args[1], Places[call[c].args[1].location],
              UtcTimeOf(c), ephe)

\* C19: calls of calculateChart that run interleaved at their awaits (the
\* job's and a request's) do not touch each other.  Each call works on the
\* place and the date of its own arguments and returns the chart, or
\* throws the error, that it gives on its own; and a call never waits
\* between swe_set_ephe_path and its last library call, so no other call's
\* swe_close falls in between.
SelfContained ==
    \A c \in Callers :
        LET k == call[c]
            a == k.args[1]
        IN  /\ k.pc \in {"timezone", "returned"} =>
                  /\ k.geo = Some(Places[a.location])
                  /\ k.isoString = IsoString(a.year, a.month, a.day, a.time)
            /\ (k.tzData # Null /\ k.tzData[1].status = "OK") =>
                  k.tzData[1].timeZoneId =
                  ZoneAt(Places[a.location].geometry.location.lat,
                         Places[a.location].geometry.location.lng)
            /\ (Settled(c) /\ Resolved(c)) =>
                  LET alone == Alone(c)
                  IN  /\ k.pc = alone.pc
                      /\ k.error = alone.error
                      /\ k.chartData = alone.chartData
            /\ k.pc = "returned" => Resolved(c)
            /\ k.sweph = "open" => k.pc = "thrown"
            /\ k.pc \in {"geocode", "timezone"} => k.sweph = "none"

\* the job's call has returned its chart for Greenwich while the call of a
\* request for Tokyo waits for its time zone
SelfContainedWitness ==
    /\ call["job"].pc = "returned"
    /\ call["job"].args[1].location = "Greenwich, UK"
    /\ call["api"].pc = "timezone"
    /\ call["api"].args[1].location = "Tokyo"

\* meta.inputs of a stored row, Null when the row has none
StoredInputs(row) ==
    IF JsonParse(row.event_data).threw THEN Null
    ELSE IF HasInputs(JsonParse(row.event_data).value)
         THEN Some(JsonParse(row.event_data).value.meta.inputs)
         ELSE Null
\* the five inputs among the arguments of a call
InputsOfArgs(a) ==
    [year |-> a.year, month |-> a.month, day |-> a.day, time |-> a.time,
     location |-> a.location]
\* stored inputs with the fields that a request body names taken from it
Overridden(inputs, body) ==
    [f \in InputFields |-> IF Has(body, f) THEN body[f] ELSE inputs[f]]

\* C20 as the specification words it: once a chart with meta.inputs is
\* stored under an event id, no later write under that id (by PUT
\* /api/astro-event or by the job) stores other meta.inputs.
InputsImmutable ==
    [][\A id \in DOMAIN store :
          StoredInputs(store[id]) # Null =>
              StoredInputs(store'[id]) = StoredInputs(store[id])]_vars

\* C20, amended: the inputs of a stored chart change only by PUT
\* /api/astro-event, which stores the inputs it read from the row with the
\* fields of the request body put over them; the job stores under an id the
\* inputs of the chart it read for that id in its snapshot.
InputsChangedByPutOnly ==
    [][/\ \A id \in DOMAIN store :
             store'[id] # store[id] =>
                \/ /\ jobPc = "update" /\ req' = req
                   /\ events[idx].event_id = id
                   /\ StoredInputs(store'[id])
                      = Some(InputsOfArgs(JobArgsOf(events[idx])))
                   /\ StoredInputs(events[idx]) # Null =>
                         StoredInputs(store'[id]) = StoredInputs(events[idx])
                \/ /\ req.pc = "update" /\ req'.pc = "responded"
                   /\ req.eventId = id
                   /\ StoredInputs(store'[id])
                      = Some(InputsOfArgs(call["api"].args[1]))
       /\ (req.pc = "select" /\ req'.pc = "calc"
           /\ StoredInputs(store[req.eventId]) # Null) =>
             InputsOfArgs(call'["api"].args[1])
             = Overridden(StoredInputs(store[req.eventId])[1], req.body)
      ]_vars

\* a PUT answered 200 that stored the year 2001 for a chart of 2000
InputsChangedByPutOnlyWitness ==
    /\ req.pc = "responded"
    /\ req.route = "put"
    /\ req.status = 200
    /\ Has(req.body, "year")
    /\ StoredInputs(store[req.eventId]) # Null
    /\ StoredInputs(store[req.eventId])[1].year = 2001

AspectSymmetric ==
    ret # Null =>
        /\ Len(ret[1].forward) = Len(ret[1].backward)
        /\ Len(ret[1].forward) <= 1
        /\ Len(ret[1].forward) = 1 =>
              /\ ret[1].forward[1].aspect = ret[1].backward[1].aspect
              /\ ret[1].forward[1].orb = ret[1].backward[1].orb

\* longitudes 270 and 0, more than a half circle apart whichever is taken
\* first, found a square of orb 0 in both orders
AspectSymmetricWitness ==
    /\ ret # Null
    /\ arg[1].lon1 = 270 /\ arg[1].lon2 = 0
    /\ Len(ret[1].forward) = 1 /\ Len(ret[1].backward) = 1
    /\ ret[1].forward[1].aspect = "square" /\ ret[1].forward[1].orb = 0

\* the kinds of a catalog within whose orb a separation lies
KindsOf(types, sep) ==
    { n \in DOMAIN types :
        sep - types[n].angle <= types[n].orb
        /\ types[n].angle - sep <= types[n].orb }
\* no two kinds of the catalog have orbs that meet
OrbsApart(types) ==
    \A m, n \in DOMAIN types :
        m # n => \/ types[m].angle + types[m].orb < types[n].angle - types[n].orb
                 \/ types[n].angle + types[n].orb < types[m].angle - types[m].orb

\* C25: the aspect catalog is unambiguous.  In the six-kind catalog and in
\* the nine-kind catalog the orbs of two kinds never meet, so a folded
\* separation lies within the orb of one kind at most, and the kind (and
\* orb) detected is the same when the catalog is read in the opposite
\* order.
CatalogUnambiguous ==
    /\ OrbsApart(aspectTypes)
    /\ OrbsApart(aspects)
    /\ ret # Null =>
          LET sep == Folded(arg[1].lon1, arg[1].lon2)
          IN  /\ Cardinality(KindsOf(aspectTypes, sep)) <= 1
              /\ Cardinality(KindsOf(aspects, sep)) <= 1
              /\ ret[1].six = ret[1].sixBackwards
              /\ ret[1].nine = ret[1].nineBackwards
              /\ (ret[1].six # Null) = (KindsOf(aspectTypes, sep) # {})
              /\ (ret[1].nine # Null) = (KindsOf(aspects, sep) # {})
              /\ ret[1].six # Null =>
                    /\ Len(ret[1].forward) = 1
                    /\ ret[1].forward[1].aspect = ret[1].six[1].aspect

\* a separation of 74 degrees is a quintile of orb 2 in the nine-kind
\* catalog, read either way, and no aspect in the six-kind catalog
CatalogUnambiguousWitness ==
    /\ ret # Null
    /\ Folded(arg[1].lon1, arg[1].lon2) = 74
    /\ ret[1].nine = Some([aspect |-> "quintile", orb |-> 2])
    /\ ret[1].nineBackwards = ret[1].nine
    /\ ret[1].six = Null

\* C23: on no calendar day do more than five chat requests of the user
\* get an AI response, however the requests overlap.
ChatLimit ==
    \A d \in DOMAIN served : served[d] <= QueryLimit

\* C29: a request that is over released the connection it took from the
\* pool exactly once, and released nothing when it took none.
ReleasedOnce ==
    \A r \in DOMAIN chats :
        chats[r].pc = "responded" =>
            chats[r].releases = (IF chats[r].conn = "none" THEN 0 ELSE 1)

\* C26: a PUT whose merged inputs carry the house system H stores and
\* answers a document with houses of system H, with the cusps the
\* ephemeris gives for H.
HouseSystemOnUpdate ==
    ( /\ req.pc = "responded" /\ req.route = "put" /\ req.status = 200
      /\ Has(req.body, "houseSystem") )
    => LET H == req.body.houseSystem
           stored == JsonParse(store[req.eventId].event_data).value
       IN  /\ req.json[1].houses # Null
           /\ req.json[1].houses[1].system = H
           /\ req.json[1].houses[1].cusps = Cusps(ephe.houses[H].house)
           /\ stored.houses = req.json[1].houses

\* C27: the job does not undo an update made through the API.  When the
\* job overwrites the document of an event, the document it replaces is
\* still the one the job read for that event when it listed the records
\* (no PUT has stored another since).
NoLostUpdate ==
    [][ (jobPc = "update" /\ jobPc' # "update" /\ store' # store)
        => store[events[idx].event_id].event_data = events[idx].event_data
      ]_vars

\* C28: the job writes a record only after it has recalculated it.  With
\* the job alone at the table, every record of the snapshot that was
\* skipped or has failed, and every record not yet done (the one being
\* recalculated included, up to the UPDATE), holds the document the job
\* read for it; a record logged as recalculated holds a chart that
\* calculateChart returned.
WriteAfterSuccess ==
    /\ \A k \in 1..Len(log) :
          LET row == store[log[k].event_id]
          IN  IF log[k].outcome = "recalculated"
              THEN /\ row.event_data.wellFormed
                   /\ HasInputs(row.event_data.value)
                   /\ row.event_data.value
                      = Ephemeris(JobArgsOf(events[k]),
                                  Places[JobArgsOf(events[k]).location],
                                  ToUTC(FromISO(IsoString(
                                            JobArgsOf(events[k]).year,
                                            JobArgsOf(events[k]).month,
                                            JobArgsOf(events[k]).day,
                                            JobArgsOf(events[k]).time)),
                                        ZoneOffset(ZoneAt(
                                            Places[JobArgsOf(events[k]).location].geometry.location.lat,
                                            Places[JobArgsOf(events[k]).location].geometry.location.lng))),
                                  ephe).chartData[1]
              ELSE row.event_data = events[k].event_data
    /\ \A k \in (Len(log) + 1)..Len(events) :
          store[events[k].event_id].event_data = events[k].event_data

\* the job is over: it skipped or failed on its first record, whose
\* document is as it was, and has rewritten the second
WriteAfterSuccessWitness ==
    /\ jobPc = "done"
    /\ Len(log) >= 2
    /\ log[1].outcome \in {"failed", "skipped"}
    /\ store[log[1].event_id].event_data = events[1].event_data
    /\ log[2].outcome = "recalculated"
    /\ store[log[2].event_id].event_data # events[2].event_data

\* C30: a second run of the job over the table a first run left changes
\* no document.  Whether a record is skipped is the same in both runs, a
\* record the first run rewrote has inputs for the second, and every
\* record that the second run has taken with the outcome of the first
\* (the collaborators answered alike), or has not taken yet, holds the
\* document the first run left; this includes the records whose inputs
\* the first run reconstructed from meta.date.
RerunIdempotent ==
    produced # Null =>
        /\ \A k \in 1..Len(log) :
              LET id == log[k].event_id
                  first == produced[1].log[k].outcome
              IN  /\ (first = "skipped") = (log[k].outcome = "skipped")
                  /\ log[k].outcome = first =>
                        store[id].event_data
                        = produced[1].store[id].event_data
        /\ \A k \in (Len(log) + 1)..Len(events) :
              store[events[k].event_id].event_data
              = produced[1].store[events[k].event_id].event_data
        /\ \A id \in DOMAIN produced[1].store :
              \A k \in 1..Len(produced[1].log) :
                  ( produced[1].log[k].event_id = id
                    /\ produced[1].log[k].outcome = "recalculated" )
                  => HasInputs(JsonParse(produced[1].store[id].event_data).value)

\* the second run is over and has recalculated again a record whose
\* inputs the first run reconstructed from meta.date
RerunIdempotentWitness ==
    /\ produced # Null
    /\ jobPc = "done"
    /\ \E k \in 1..Len(log) :
          /\ log[k].outcome = "recalculated"
          /\ produced[1].log[k].outcome = "recalculated"
          /\ LET data == JsonParse(store[log[k].event_id].event_data).value
             IN  /\ data.meta.inputs.location = "Tokyo, Japan"
                 /\ data.meta.inputs.time = <<"1", "5", ":", "3", "0", ":", "0", "0">>

\* the tables when the script began its transaction
Before == script.before[1]
\* the rows that had no conversation then
Legacy == { id \in DOMAIN Before.messages :
              Before.messages[id].conversation_id = Null }
\* what holds after a run that is not dry, whatever "the same key" and
\* "no key" mean: no row is without a conversation, two legacy rows share
\* one exactly when sameKey says so, a row without a key has one of its
\* own, and a conversation that was created is of the user of its rows
Backfilled(sameKey(_, _), noKey(_)) ==
    ( /\ script # Null /\ script.pc = "done" /\ ~script.dryRun
      /\ script.before # Null )
    => /\ \A id \in DOMAIN messages : messages[id].conversation_id # Null
       /\ \A a, b \in Legacy :
             a # b =>
             ( (messages[a].conversation_id = messages[b].conversation_id)
               <=> /\ messages[a].user_id = messages[b].user_id
                   /\ ~noKey(messages[a].session_key)
                   /\ ~noKey(messages[b].session_key)
                   /\ sameKey(messages[a].session_key[1],
                              messages[b].session_key[1]) )
       /\ \A a \in Legacy :
             /\ messages[a].conversation_id[1] > Len(Before.conversations)
             /\ messages[a].conversation_id[1] \in DOMAIN conversations
             /\ conversations[messages[a].conversation_id[1]].user_id
                = messages[a].user_id
             /\ noKey(messages[a].session_key) =>
                   \A b \in DOMAIN messages :
                       b # a => messages[b].conversation_id
                                # messages[a].conversation_id
       /\ \A id \in DOMAIN messages \ Legacy :
             messages[id] = Before.messages[id]
       /\ \A c \in (Len(Before.conversations) + 1)..Len(conversations) :
             \E a \in Legacy : messages[a].conversation_id = Some(c)

SameText(k1, k2) == k1 = k2
NullOrEmpty(sessionKey) == sessionKey = Null \/ sessionKey[1] = ""
SameCollated(k1, k2) == Collated(k1) = Collated(k2)

\* C24, as stated: after a run of the script that is not dry no row of
\* chat_messages is without a conversation; two rows that had none share
\* one exactly when they have the same user_id and the same session_key,
\* which is not empty; a row with a NULL or empty session_key has a
\* conversation of its own; a created conversation is of the user of its
\* rows.
BackfillExact == Backfilled(SameText, NullOrEmpty)

\* C24, amended: the same, with session keys compared as the column's
\* collation compares them (letter case and trailing spaces are not told
\* apart) and a session_key of spaces only counted as empty.
BackfillCollated == Backfilled(SameCollated, Blank)

\* a run that is not dry is over: two rows of one user with the keys "s1"
\* and "S1" share a conversation, and a row with the key " " has its own
BackfillCollatedWitness ==
    /\ script # Null /\ script.pc = "done" /\ ~script.dryRun
    /\ script.before # Null
    /\ \E a, b, c \in Legacy :
          /\ messages[a].session_key = Some("s1")
          /\ messages[b].session_key = Some("S1")
          /\ messages[c].session_key = Some(" ")
          /\ messages[a].conversation_id = messages[b].conversation_id
          /\ messages[c].conversation_id # messages[a].conversation_id

=============================================================================
